---- MODULE Spec2Model ----
(***************************************************************************)
(* GP supplier pipeline: the normalizer (execution/download_gpad.py and    *)
(* execution/helpers.py) and the enricher (execution/enrich_gp_data.py).   *)
(*                                                                         *)
(* Text is modelled as a sequence of symbols, each symbol standing for a   *)
(* run of characters that the code never cuts ("EVERGREENLIFE", "/",       *)
(* "25", ".csv"), so that split, slicing and endswith are computed.        *)
(* ODS codes, practice names and commissioner codes are never cut by the   *)
(* code and are plain strings.  A CSV file is the sequence of its rows,    *)
(* each row the sequence of its columns.                                   *)
(***************************************************************************)
EXTENDS Integers, Sequences, FiniteSets, TLC

\* ------------------------------------------------------------------ bounds
\* data rows per raw extract file (SpecNorm)
MaxRows == 2
\* symbols per raw supplier field (SpecCanon)
MaxLen == 5
\* enricher runs started in one behaviour (Spec)
MaxRuns == 2
\* relationships in one registry answer
MaxRels == 2
\* records of a dataset handed to the query engine (SpecQuery)
MaxRecords == 3
\* download cards on a publication page (SpecAcq)
MaxCards == 2

\* ------------------------------------------------------- python primitives
\* Python's None
None == "<None>"

\* bool(v) of a str-or-None value
Truthy(v) == v # None /\ v # ""

\* dict.get(key) on a dict modelled as a function
Get(d, k) == IF k \in DOMAIN d THEN d[k] ELSE None

\* d[k] = v on a dict modelled as a function
Put(d, k, v) == [x \in DOMAIN d \cup {k} |-> IF x = k THEN v ELSE d[x]]

\* the ODS codes of the model, in the order of Python's str comparison
\* (code point order: upper case sorts before lower case)
CodeOrder == <<"A81001", "A81002", "a81001">>

OdsCodes == {CodeOrder[i] : i \in DOMAIN CodeOrder}

Rank(c) == CHOOSE i \in DOMAIN CodeOrder : CodeOrder[i] = c

\* a < b on str
StrLess(a, b) == Rank(a) < Rank(b)

RECURSIVE SplitFrom(_, _, _, _)
\* str.split(sep): s scanned from position i, cur the token being read
SplitFrom(s, sep, i, cur) ==
  IF i > Len(s) THEN <<cur>>
  ELSE IF s[i] = sep THEN <<cur>> \o SplitFrom(s, sep, i + 1, <<>>)
  ELSE SplitFrom(s, sep, i + 1, Append(cur, s[i]))

Split(s, sep) == SplitFrom(s, sep, 1, <<>>)

\* str.endswith(suffix)
EndsWith(s, suffix) ==
  /\ Len(suffix) <= Len(s)
  /\ SubSeq(s, Len(s) - Len(suffix) + 1, Len(s)) = suffix

\* --------------------------------------------------------------- helpers.py
MonthNames ==
  [i \in 1..12 |->
     <<"january", "february", "march", "april", "may", "june", "july",
       "august", "september", "october", "november", "december">>[i]]

\* int("01") .. int("12")
IntOf(mm) ==
  CASE mm = <<"01">> -> 1 [] mm = <<"02">> -> 2 [] mm = <<"03">> -> 3
    [] mm = <<"04">> -> 4 [] mm = <<"05">> -> 5 [] mm = <<"06">> -> 6
    [] mm = <<"07">> -> 7 [] mm = <<"08">> -> 8 [] mm = <<"09">> -> 9
    [] mm = <<"10">> -> 10 [] mm = <<"11">> -> 11 [] mm = <<"12">> -> 12

month_to_name(mm) == MonthNames[IntOf(mm)]

\* [year, month] = iso_month.split("-"); an ISO month is <<"20","25","-","01">>
get_month_and_year_from_iso_month(iso_month) ==
  LET parts == Split(iso_month, "-")
  IN  [month |-> month_to_name(parts[2]), year |-> parts[1]]

\* month[:3].capitalize()
Abbreviate(name) ==
  CASE name = "january" -> "Jan" [] name = "february" -> "Feb"
    [] name = "march" -> "Mar" [] name = "april" -> "Apr"
    [] name = "may" -> "May" [] name = "june" -> "Jun"
    [] name = "july" -> "Jul" [] name = "august" -> "Aug"
    [] name = "september" -> "Sep" [] name = "october" -> "Oct"
    [] name = "november" -> "Nov" [] name = "december" -> "Dec"

\* f"{abbreviated_month}_{abbreviated_year}.csv"; year[2:4] is the second
\* two-digit symbol of the year
SearchString(iso_month) ==
  LET my == get_month_and_year_from_iso_month(iso_month)
  IN  <<Abbreviate(my.month), "_">> \o SubSeq(my.year, 2, 2) \o <<".csv">>

\* the entries of os.listdir(unzip_dir), in the order `listing`, whose name
\* ends with the search string
get_data_file_paths(listing, iso_month) ==
  SelectSeq(listing, LAMBDA f : EndsWith(f, SearchString(iso_month)))

EVERGREENLIFE == <<"EVERGREENLIFE">>

\* a variant that forgets EVERGREENLIFE: always the first token
get_main_system_first_token(value) == Split(value, "/")[1]

\* a variant that applies the EVERGREENLIFE rule to two-token fields only
get_main_system_two_tokens_only(value) ==
  LET systems == Split(value, "/")
  IN  IF Len(systems) = 2 /\ systems[1] = EVERGREENLIFE THEN systems[2]
      ELSE systems[1]

get_main_system_from_value(value) ==
  LET systems == Split(value, "/")
  IN  IF Len(systems) = 1 THEN systems[1]
      ELSE IF systems[1] = EVERGREENLIFE THEN systems[2]
      ELSE IF systems[2] = EVERGREENLIFE THEN systems[1]
      ELSE systems[1]

\* ------------------------------------------------------------------- state
VARIABLES
  value,             \* canonical resolution: the raw supplier field given
  main_system,       \* canonical resolution: the value returned
  resolved,          \* canonical resolution: whether the call has returned
  tmp_dir,           \* .tmp/<month>: file name -> rows of the extracted file
  input_file_paths,  \* the paths handed to the last process_data_files call
  norm_month,        \* the month of the last normalizer run
  gp_suppliers,      \* execution/data/gp_suppliers_<month>.csv
  icb_gp_suppliers,  \* execution/data/icb_gp_suppliers_<month>.csv
  map_file,          \* execution/data/GP to ICB Sub location - Map.csv
  pc,                \* enricher: where main() stands
  month,             \* enricher: args.month
  ods_map,           \* enricher: the in-memory cache
  idx,               \* enricher: the data row the reader is at
  icb_code,          \* enricher: icb_code of the row in hand
  new_rows,          \* enricher: the rows to write
  api_calls,         \* enricher: the counter of the same name
  runs,              \* enricher runs started so far
  cache0,            \* history: ods_map as load_map returned it
  map0,              \* history: the cache file as the run found it
  calls,             \* history: requests and waits of the lookup in hand
  log,               \* history: per finished row, a LogEntry
  lookup_instance,   \* a GPSupplierLookup object (server: _lookup_instance)
  result,            \* query engine: the last call and what it returned
  acq_pc,            \* normalizer, step by step: where main() stands
  download_link,     \* normalizer: the link of the archive (or zip_file)
  zip_files,         \* .tmp/<month>.zip
  processed,         \* normalizer: what process_data_files returned
  error,             \* normalizer: the step whose exception ended main()
  durable0,          \* history: the durable artifacts as the run found them
  lookup_month,      \* server: _lookup_month
  reply,             \* server: what the last tool call returned
  missed,            \* history: a query has been answered FileNotFoundError
  dropped,           \* history: the object the last successful update found
  procs,             \* enricher processes side by side: each one's locals
  overlapped         \* history: a process has started while another ran

canonVars == <<value, main_system, resolved>>

normVars == <<tmp_dir, input_file_paths, norm_month, gp_suppliers>>

enrichVars ==
  <<icb_gp_suppliers, map_file, pc, month, ods_map, idx, icb_code, new_rows,
    api_calls, runs, cache0, map0, calls, log>>

queryVars == <<lookup_instance, result>>

\* the state the pipeline's own steps have no part in
acqVars == <<acq_pc, download_link, zip_files, processed, error, durable0>>

serverVars == <<lookup_month, reply, missed, dropped>>

concVars == <<procs, overlapped>>

otherVars == <<queryVars, acqVars, serverVars, concVars>>

vars == <<canonVars, normVars, enrichVars, otherVars>>

\* a file that does not exist
NoFile == [exists |-> FALSE, rows |-> <<>>]

File(rows) == [exists |-> TRUE, rows |-> rows]

Months == {<<"20", "25", "-", "01">>, <<"20", "25", "-", "02">>}

\* the enricher is not running: not started, ended by a crash or by
\* sys.exit ("idle"), returned ("done"), ended by a traceback ("failed")
Stopped == {"idle", "done", "failed"}

\* --------------------------------------------------------- download_gpad.py
\* a variant that assigns unconditionally: the last row of a code wins
SetDefaultOverwrite(data, gp_code, val) ==
  IF \E i \in DOMAIN data : data[i].gp_code = gp_code
    THEN [i \in DOMAIN data |->
            IF data[i].gp_code = gp_code THEN [gp_code |-> gp_code, val |-> val]
            ELSE data[i]]
    ELSE Append(data, [gp_code |-> gp_code, val |-> val])

\* data[gp_code] = ... when gp_code is not a key yet; a dict keeps its keys
\* in insertion order, so data is the sequence of its items
SetDefault(data, gp_code, val) ==
  IF \E i \in DOMAIN data : data[i].gp_code = gp_code
    THEN data
    ELSE Append(data, [gp_code |-> gp_code, val |-> val])

\* a variant that asks a row for five columns
ProcessRowFiveColumns(acc, index, row) ==
  IF index = 0 THEN acc
  ELSE IF Len(row) < 5 THEN acc
  ELSE LET gp_code == row[2]
           gp_name == row[3]
           appointments_systems == row[4]
           main == get_main_system_from_value(appointments_systems)
       IN  [data |-> SetDefault(acc.data, gp_code, <<appointments_systems, main>>),
            gp_code_to_name |->
              IF gp_code \in DOMAIN acc.gp_code_to_name
                THEN acc.gp_code_to_name
                ELSE Put(acc.gp_code_to_name, gp_code, gp_name)]

\* one turn of the row loop; index is enumerate's, starting at 0
ProcessRow(acc, index, row) ==
  IF index = 0 THEN acc
  ELSE IF Len(row) < 4 THEN acc
  ELSE LET gp_code == row[2]
           gp_name == row[3]
           appointments_systems == row[4]
           main == get_main_system_from_value(appointments_systems)
       IN  [data |-> SetDefault(acc.data, gp_code, <<appointments_systems, main>>),
            gp_code_to_name |->
              IF gp_code \in DOMAIN acc.gp_code_to_name
                THEN acc.gp_code_to_name
                ELSE Put(acc.gp_code_to_name, gp_code, gp_name)]

RECURSIVE ProcessFile(_, _, _)
\* the rows of one file from row i on
ProcessFile(acc, rows, i) ==
  IF i > Len(rows) THEN acc
  ELSE ProcessFile(ProcessRow(acc, i - 1, rows[i]), rows, i + 1)

RECURSIVE ProcessFiles(_, _, _, _)
\* the file loop from path k on; dir gives each path's rows
ProcessFiles(acc, paths, dir, k) ==
  IF k > Len(paths) THEN acc
  ELSE ProcessFiles(ProcessFile(acc, dir[paths[k]], 1), paths, dir, k + 1)

\* where sorted() puts item e in the sorted sequence t: after every item
\* that is not greater
InsertItem(e, t) ==
  LET k == Cardinality({i \in DOMAIN t : ~StrLess(e.gp_code, t[i].gp_code)})
  IN  SubSeq(t, 1, k) \o <<e>> \o SubSeq(t, k + 1, Len(t))

\* a variant that leaves the items in insertion order
SortedItemsInsertionOrder(data) == data

RECURSIVE SortedItems(_)
\* dict(sorted(data.items())): the keys are distinct, so the key decides
SortedItems(data) ==
  IF data = <<>> THEN <<>>
  ELSE InsertItem(data[Len(data)], SortedItems(SubSeq(data, 1, Len(data) - 1)))

process_data_files(paths, dir) ==
  LET acc == ProcessFiles([data |-> <<>>, gp_code_to_name |-> <<>>], paths, dir, 1)
  IN  [data |-> SortedItems(acc.data), gp_code_to_name |-> acc.gp_code_to_name]

SuppliersHeader == <<"GP_ODS_CODE", "GP_NAME", "GP_GPAD_SYSTEMS", "GP_SYSTEM">>

write_output_file(data, gp_code_to_name) ==
  File(<<SuppliersHeader>> \o
       [i \in DOMAIN data |->
          <<data[i].gp_code, gp_code_to_name[data[i].gp_code],
            data[i].val[1], data[i].val[2]>>])

\* the entry of the directory a file lies under: its own name, or the name
\* of the sub-directory its path starts with
TopEntry(path) ==
  IF \E i \in DOMAIN path : path[i] = "/"
    THEN SubSeq(path, 1, (CHOOSE i \in DOMAIN path :
                            /\ path[i] = "/"
                            /\ \A j \in 1..(i - 1) : path[j] # "/") - 1)
    ELSE path

\* the names os.listdir returns: the files and sub-directories right under
\* the directory, not what lies below them
ListDir(dir) == {TopEntry(f) : f \in DOMAIN dir}

\* the orders os.listdir may return the names of a directory in
Listings(dir) ==
  {p \in [1..Cardinality(ListDir(dir)) -> ListDir(dir)] :
     \A i, j \in DOMAIN p : i # j => p[i] # p[j]}

\* what a normalizer run over `listing` writes
NormalizerOutput(m, listing) ==
  LET out == process_data_files(get_data_file_paths(listing, m), tmp_dir[m])
  IN  write_output_file(out.data, out.gp_code_to_name)

\* main(month): list the extracted files, select the month's, process and
\* write; zero selected files raises before anything is written
DownloadGpadMain(m) ==
  \E listing \in Listings(tmp_dir[m]) :
    LET paths == get_data_file_paths(listing, m)
    IN  /\ pc \in Stopped
        /\ input_file_paths' = paths
        /\ norm_month' = m
        /\ gp_suppliers' =
             IF Len(paths) = 0 THEN gp_suppliers
             ELSE [gp_suppliers EXCEPT ![m] = NormalizerOutput(m, listing)]
        /\ UNCHANGED <<otherVars, tmp_dir, canonVars, enrichVars>>

\* a call of get_main_system_from_value
ResolveCanonical ==
  /\ ~resolved
  /\ main_system' = get_main_system_from_value(value)
  /\ resolved' = TRUE
  /\ UNCHANGED <<otherVars, value, normVars, enrichVars>>

\* ------------------------------------------------------- enrich_gp_data.py
MapHeader == <<"ICB Sub location", "GP_ODS_CODE">>

\* the set of the elements of a sequence
Range(s) == {s[i] : i \in DOMAIN s}

\* csv.DictReader: a data row as a dict keyed by the header's names (of two
\* columns of one name the later wins, as in dict(zip(fieldnames, row)))
DictRow(header, row) ==
  [name \in Range(header) |->
     row[CHOOSE i \in DOMAIN header :
           /\ header[i] = name
           /\ \A j \in DOMAIN header : header[j] = name => j <= i]]

\* the data rows csv.DictReader yields for a file
DictRows(file) ==
  IF Len(file.rows) = 0 THEN <<>>
  ELSE [i \in 1..(Len(file.rows) - 1) |-> DictRow(file.rows[1], file.rows[i + 1])]

RECURSIVE LoadRows(_, _, _)
\* the row loop of load_map from row i on
LoadRows(mapping, rows, i) ==
  IF i > Len(rows) THEN mapping
  ELSE LoadRows(
         IF "GP_ODS_CODE" \in DOMAIN rows[i] /\ "ICB Sub location" \in DOMAIN rows[i]
           THEN Put(mapping, rows[i]["GP_ODS_CODE"], rows[i]["ICB Sub location"])
           ELSE mapping,
         rows, i + 1)

\* a variant that returns the empty map whatever the file holds
load_map_forgetting(file) == <<>>

load_map(file) ==
  IF ~file.exists THEN <<>> ELSE LoadRows(<<>>, DictRows(file), 1)

\* a variant that writes the two columns the other way round
append_to_map_swapped(file, ods_code, code) ==
  IF ~file.exists THEN File(<<MapHeader, <<ods_code, code>>>>)
  ELSE File(Append(file.rows, <<ods_code, code>>))

\* a variant that writes the header in front of every row it appends
append_to_map_with_header(file, ods_code, code) ==
  IF ~file.exists THEN File(<<MapHeader, <<code, ods_code>>>>)
  ELSE File(file.rows \o <<MapHeader, <<code, ods_code>>>>)

\* a variant that opens the file for writing instead of appending
append_to_map_truncating(file, ods_code, code) ==
  File(<<MapHeader, <<code, ods_code>>>>)

append_to_map(file, ods_code, code) ==
  IF ~file.exists THEN File(<<MapHeader, <<code, ods_code>>>>)
  ELSE File(Append(file.rows, <<code, ods_code>>))

\* --- the registry's answers
\* a relationship: Target is "absent" or "present"; a present Target holds an
\* OrgId whose extension is a string or None (absent)
Rel(status, id, target, extension) ==
  [Status |-> status, id |-> id, Target |-> target, extension |-> extension]

RelChoices ==
  { Rel("Active", "RE4", "present", "00L"),
    Rel("Active", "RE4", "present", "84H"),
    Rel("Inactive", "RE4", "present", "84H"),
    Rel("Active", "RE5", "present", "84H"),
    Rel("Active", "RE4", "present", None),
    Rel("Active", "RE4", "present", "") }

\* sequences over S of length at most n
SeqsUpTo(S, n) == UNION {[1..k -> S] : k \in 0..n}

\* the bodies of a 200 answer
Bodies ==
  {[kind |-> k, rels |-> <<>>] :
     k \in {"unparsable", "number", "no_organisation", "no_rels", "rels_not_dict"}}
  \cup {[kind |-> "rel_list", rels |-> r] : r \in SeqsUpTo(RelChoices, MaxRels)}
  \cup {[kind |-> "rel_single", rels |-> <<r>>] : r \in RelChoices}

NoBody == [kind |-> "unparsable", rels |-> <<>>]

\* what requests.get(url) does: raise (status 0), or return a response
Responses ==
  {[status |-> st, body |-> NoBody] : st \in {0, 404, 429, 500}}
  \cup {[status |-> 200, body |-> b] : b \in Bodies}

Return(v) == [kind |-> "return", val |-> v]

Raise(e) == [kind |-> "raise", val |-> e]

RECURSIVE FindCommissioner(_, _)
\* the loop over the relationships from element i on
FindCommissioner(relationships, i) ==
  IF i > Len(relationships) THEN Return(None)
  ELSE LET rel == relationships[i]
       IN  IF rel.Status = "Active" /\ rel.id = "RE4" /\ rel.Target # "absent"
             THEN Return(rel.extension)
             ELSE FindCommissioner(relationships, i + 1)

\* lines 74-104: the answer in hand, from the 404 test to the final return
Evaluate(response) ==
  IF response.status = 404 THEN Return(None)
  ELSE IF response.status >= 400 THEN Raise("HTTPError")
  ELSE CASE response.body.kind = "unparsable" -> Raise("JSONDecodeError")
         [] response.body.kind = "number" -> Raise("TypeError")
         [] response.body.kind \in {"no_organisation", "no_rels", "rels_not_dict"}
              -> Return(None)
         [] response.body.kind \in {"rel_list", "rel_single"}
              -> FindCommissioner(response.body.rels, 1)

\* a variant without the `except Exception` clause
CaughtRequestExceptionOnly(e) == e \in {"ConnectionError", "HTTPError"}

\* the except clauses: RequestException, then Exception
Caught(e) ==
  \/ e \in {"ConnectionError", "HTTPError"}
  \/ e \in {"JSONDecodeError", "TypeError", "AttributeError"}

\* what get_commissioner_code does with the outcome of its try block
Handle(outcome) ==
  IF outcome.kind = "raise" /\ Caught(outcome.val) THEN Return(None) ELSE outcome

\* a variant that asks again after any error status
ShouldRetryOnAnyError(response) == response.status \in {429, 500}

\* a variant that never takes the cached code (the map looked up under a
\* key that is never in it)
CacheHitNever(cached) == FALSE

\* a variant that tests `icb_code is not None`
FoundNotNone(code) == code # None

\* line 69: the answer that is asked for again
ShouldRetry(response) == response.status = 429

\* line 150: `if not icb_code` is false, the cache has the code
CacheHit(cached) == Truthy(cached)

\* line 156: `if icb_code`, the lookup found a code
Found(code) == Truthy(code)

\* whether a relationship list holds an active "Commissioned By" relationship
\* with a commissioner code in it
HasMatch(rels) ==
  \E i \in DOMAIN rels :
    /\ rels[i].Status = "Active"
    /\ rels[i].id = "RE4"
    /\ rels[i].Target = "present"
    /\ Truthy(rels[i].extension)

\* an answer as the history records it
Event(response) ==
  CASE response.status = 0 -> "ConnectionError"
    [] response.status = 404 -> "404"
    [] response.status = 429 -> "429"
    [] response.status = 500 -> "500"
    [] response.status = 200 /\ response.body.kind \in {"rel_list", "rel_single"} ->
         IF HasMatch(response.body.rels) THEN "200 match" ELSE "200 no match"
    [] response.status = 200 /\ response.body.kind \notin {"rel_list", "rel_single"} ->
         response.body.kind

\* --- main()
\* the answers after which a lookup has no code to return
FailureEvents ==
  {"ConnectionError", "404", "429", "500", "unparsable", "number",
   "no_organisation", "no_rels", "rels_not_dict", "200 no match"}

\* history: what is kept of a finished row: its code, the number of requests
\* sent for it, whether the last answer was a failure, and its commissioner
LogEntry(code, cs, commissioner) ==
  [ods_code |-> code,
   requests |-> Cardinality({i \in DOMAIN cs : cs[i] # "sleep 5"}),
   failed |-> cs # <<>> /\ cs[Len(cs)] \in FailureEvents,
   icb_code |-> commissioner]

\* the rows the reader yields in this run
InputRows == DictRows(gp_suppliers[month])

\* the row in hand
Row == InputRows[idx]

ods_code == Row["GP_ODS_CODE"]

memVars == <<ods_map, idx, icb_code, new_rows, api_calls, cache0, map0, calls, log>>

ClearMemory ==
  /\ ods_map' = <<>>
  /\ idx' = 0
  /\ icb_code' = None
  /\ new_rows' = <<>>
  /\ api_calls' = 0
  /\ cache0' = <<>>
  /\ map0' = NoFile
  /\ calls' = <<>>
  /\ log' = <<>>

\* lines 123-144: exit when the month's dataset is missing, else load the
\* cache and open the dataset
StartEnrich(m) ==
  /\ pc \in Stopped
  /\ runs < MaxRuns
  /\ runs' = runs + 1
  /\ month' = m
  /\ IF ~gp_suppliers[m].exists
       THEN /\ pc' = "idle"
            /\ ClearMemory
       ELSE /\ pc' = "loop"
            /\ ods_map' = load_map(map_file)
            /\ cache0' = load_map(map_file)
            /\ map0' = map_file
            /\ idx' = 1
            /\ icb_code' = None
            /\ new_rows' = <<>>
            /\ api_calls' = 0
            /\ calls' = <<>>
            /\ log' = <<>>
  /\ UNCHANGED <<otherVars, canonVars, normVars, icb_gp_suppliers, map_file>>

\* row['ICB Sub location'] = icb_code; new_rows.append(row)
WithCommissioner(row, code) ==
  [f \in DOMAIN row \cup {"ICB Sub location"} |->
     IF f = "ICB Sub location" THEN code ELSE row[f]]

\* lines 146-150 and, on a cache hit, 164-166
NextRow ==
  /\ pc = "loop"
  /\ idx <= Len(InputRows)
  /\ LET cached == Get(ods_map, ods_code)
     IN  IF CacheHit(cached)
           THEN /\ new_rows' = Append(new_rows, WithCommissioner(Row, cached))
                /\ log' = Append(log, LogEntry(ods_code, <<>>, cached))
                /\ idx' = idx + 1
                /\ UNCHANGED <<pc, icb_code>>
           ELSE /\ icb_code' = cached
                /\ pc' = "request"
                /\ UNCHANGED <<new_rows, log, idx>>
  /\ calls' = <<>>
  /\ UNCHANGED <<otherVars, canonVars, normVars, icb_gp_suppliers, map_file, month, ods_map,
                 api_calls, runs, cache0, map0>>

\* a variant of main() that goes on without lines 153-154
LookupEndsWithoutDelay(outcome) ==
  IF outcome.kind = "return"
    THEN icb_code' = outcome.val /\ pc' = "record"
    ELSE icb_code' = icb_code /\ pc' = "failed"

\* get_commissioner_code ends with `outcome`: its value goes to icb_code, an
\* exception it lets through ends main()
LookupEnds(outcome) ==
  IF outcome.kind = "return"
    THEN icb_code' = outcome.val /\ pc' = "delay"
    ELSE icb_code' = icb_code /\ pc' = "failed"

\* line 68 and, unless the answer is 429, lines 74-111
Request ==
  /\ pc = "request"
  /\ \E response \in Responses :
       /\ calls' = Append(calls, Event(response))
       /\ IF response.status = 0 THEN LookupEnds(Handle(Raise("ConnectionError")))
          ELSE IF ShouldRetry(response) THEN icb_code' = icb_code /\ pc' = "backoff"
          ELSE LookupEnds(Handle(Evaluate(response)))
  /\ UNCHANGED <<otherVars, canonVars, normVars, icb_gp_suppliers, map_file, month, ods_map,
                 idx, new_rows, api_calls, runs, cache0, map0, log>>

\* lines 70-71: time.sleep(5)
Backoff ==
  /\ pc = "backoff"
  /\ calls' = Append(calls, "sleep 5")
  /\ pc' = "retry"
  /\ UNCHANGED <<otherVars, canonVars, normVars, icb_gp_suppliers, map_file, month, ods_map,
                 idx, icb_code, new_rows, api_calls, runs, cache0, map0, log>>

\* line 72 and lines 74-111 on the second answer
Retry ==
  /\ pc = "retry"
  /\ \E response \in Responses :
       /\ calls' = Append(calls, Event(response))
       /\ IF response.status = 0 THEN LookupEnds(Handle(Raise("ConnectionError")))
          ELSE LookupEnds(Handle(Evaluate(response)))
  /\ UNCHANGED <<otherVars, canonVars, normVars, icb_gp_suppliers, map_file, month, ods_map,
                 idx, new_rows, api_calls, runs, cache0, map0, log>>

\* lines 153-154: api_calls += 1; time.sleep(RATE_LIMIT_DELAY)
RateLimitDelay ==
  /\ pc = "delay"
  /\ api_calls' = api_calls + 1
  /\ pc' = "record"
  /\ UNCHANGED <<otherVars, canonVars, normVars, icb_gp_suppliers, map_file, month, ods_map,
                 idx, icb_code, new_rows, runs, cache0, map0, calls, log>>

\* lines 156-162 up to the file append: keep a found code in memory, or
\* put UNKNOWN in its place
Record ==
  /\ pc = "record"
  /\ IF Found(icb_code)
       THEN /\ ods_map' = Put(ods_map, ods_code, icb_code)
            /\ pc' = "append_map"
            /\ UNCHANGED icb_code
       ELSE /\ icb_code' = "UNKNOWN"
            /\ pc' = "append_row"
            /\ UNCHANGED ods_map
  /\ UNCHANGED <<otherVars, canonVars, normVars, icb_gp_suppliers, map_file, month, idx,
                 new_rows, api_calls, runs, cache0, map0, calls, log>>

\* line 159: append_to_map(MAP_FILE, ods_code, icb_code)
AppendToMap ==
  /\ pc = "append_map"
  /\ map_file' = append_to_map(map_file, ods_code, icb_code)
  /\ pc' = "append_row"
  /\ UNCHANGED <<otherVars, canonVars, normVars, icb_gp_suppliers, month, ods_map, idx,
                 icb_code, new_rows, api_calls, runs, cache0, map0, calls, log>>

\* lines 164-166 after a lookup
AppendRow ==
  /\ pc = "append_row"
  /\ new_rows' = Append(new_rows, WithCommissioner(Row, icb_code))
  /\ log' = Append(log, LogEntry(ods_code, calls, icb_code))
  /\ idx' = idx + 1
  /\ pc' = "loop"
  /\ UNCHANGED <<otherVars, canonVars, normVars, icb_gp_suppliers, map_file, month, ods_map,
                 icb_code, api_calls, runs, cache0, map0, calls>>

\* fieldnames = ['ICB Sub location'] + reader.fieldnames
EnrichedHeader == <<"ICB Sub location">> \o SuppliersHeader

\* csv.DictWriter(f, fieldnames).writerows(rows), after the header
WriteDictRows(fieldnames, rows) ==
  File(<<fieldnames>> \o
       [i \in DOMAIN rows |-> [k \in DOMAIN fieldnames |-> rows[i][fieldnames[k]]]])

\* lines 171-178: the loop is over; write the enriched dataset
WriteOutput ==
  /\ pc = "loop"
  /\ idx > Len(InputRows)
  /\ icb_gp_suppliers' =
       [icb_gp_suppliers EXCEPT ![month] = WriteDictRows(EnrichedHeader, new_rows)]
  /\ pc' = "done"
  /\ UNCHANGED <<otherVars, canonVars, normVars, map_file, month, memVars, runs>>

\* the process is killed in the middle of a run: its memory is gone, the
\* files stay as they are
Crash ==
  /\ pc \notin Stopped
  /\ pc' = "idle"
  /\ ClearMemory
  /\ UNCHANGED <<otherVars, canonVars, normVars, icb_gp_suppliers, map_file, month, runs>>

\* ------------------------------------------------------------ gp_lookup.py
\* str.upper() on the words of the model that are not upper case already
Upper(s) ==
  CASE s = "a81001" -> "A81001"
    [] s = "a81002" -> "A81002"
    [] s \in {"emis", "Emis"} -> "EMIS"
    [] s = "tpp" -> "TPP"
    [] s \in {"park", "Park"} -> "PARK"
    [] s = "Medical" -> "MEDICAL"
    [] OTHER -> s

\* str.upper() on a text of several symbols
UpperText(t) == [i \in DOMAIN t |-> Upper(t[i])]

\* lines 41-51: the records of the file at data_file
load_data(file) ==
  IF ~file.exists THEN Raise("FileNotFoundError") ELSE Return(DictRows(file))

\* lines 30-39: the object built for the artifact of month data_file
GPSupplierLookup(data_file, file) ==
  LET loaded == load_data(file)
  IN  IF loaded.kind = "raise" THEN loaded
      ELSE Return([data_file |-> data_file, data |-> loaded.val])

\* no object (server: _lookup_instance is None)
NoInstance == [data_file |-> <<>>, data |-> <<>>]

\* a variant that compares the code as given
lookup_by_ods_code_as_given(data, code) ==
  LET hits == SelectSeq(data, LAMBDA row : row["GP_ODS_CODE"] = code)
  IN  IF hits = <<>> THEN <<>> ELSE <<hits[1]>>

RECURSIVE LookupFrom(_, _, _)
\* the loop of lines 63-66 from record i on; the value returned is a
\* sequence: <<row>>, or <<>> for None
LookupFrom(data, code, i) ==
  IF i > Len(data) THEN <<>>
  ELSE IF data[i]["GP_ODS_CODE"] = Upper(code) THEN <<data[i]>>
  ELSE LookupFrom(data, code, i + 1)

lookup_by_ods_code(data, code) == LookupFrom(data, code, 1)

\* `term in text`: the term is a run of the text (the empty term always is)
Within(term, text) ==
  \E k \in 0..(Len(text) - Len(term)) : SubSeq(text, k + 1, k + Len(term)) = term

\* a variant of the loop that stores the upper-cased name in the record
SearchedRecordsUpperInPlace(data) ==
  [i \in DOMAIN data |-> [data[i] EXCEPT !["GP_NAME"] = UpperText(@)]]

\* lines 82-89: self.data after the loop; the upper-cased name is bound to a
\* local, the rows are appended to results as they are
SearchedRecords(data) == data

\* lines 79-91: the value returned
search_by_name(data, name, exact) ==
  SelectSeq(data,
            LAMBDA row :
              IF exact THEN UpperText(row["GP_NAME"]) = UpperText(name)
              ELSE Within(UpperText(name), UpperText(row["GP_NAME"])))

\* lines 103-110
filter_by_system(data, system) ==
  SelectSeq(data, LAMBDA row : row["GP_SYSTEM"] = UpperText(system))

RECURSIVE CountSystems(_, _, _)
\* lines 122-124: system_counts, a dict in insertion order, as the sequence
\* of its items
CountSystems(data, i, counts) ==
  IF i > Len(data) THEN counts
  ELSE LET system == data[i]["GP_SYSTEM"]
       IN  CountSystems(data, i + 1,
             IF \E k \in DOMAIN counts : counts[k].system = system
               THEN [k \in DOMAIN counts |->
                       IF counts[k].system = system
                         THEN [counts[k] EXCEPT !.count = @ + 1]
                         ELSE counts[k]]
               ELSE Append(counts, [system |-> system, count |-> 1]))

\* a variant of the sort that puts an item before the items of equal count
InsertByCountBeforeEquals(e, t) ==
  LET before == SelectSeq(t, LAMBDA x : x.count > e.count)
      after == SelectSeq(t, LAMBDA x : x.count <= e.count)
  IN  before \o <<e>> \o after

\* sorted(..., key=count, reverse=True) is stable: an item goes behind the
\* items already placed whose count is not smaller
InsertByCount(e, t) ==
  LET before == SelectSeq(t, LAMBDA x : x.count >= e.count)
      after == SelectSeq(t, LAMBDA x : x.count < e.count)
  IN  before \o <<e>> \o after

RECURSIVE SortedByCount(_, _, _)
SortedByCount(items, i, acc) ==
  IF i > Len(items) THEN acc
  ELSE SortedByCount(items, i + 1, InsertByCount(items[i], acc))

\* round((count / total) * 100, 2), in hundredths of a percent
Percentage(count, total) == (2 * 10000 * count + total) \div (2 * total)

\* lines 119-138
get_statistics(data) ==
  LET total == Len(data)
      sorted == SortedByCount(CountSystems(data, 1, <<>>), 1, <<>>)
  IN  [total_practices |-> total,
       systems |->
         [k \in DOMAIN sorted |->
            [system |-> sorted[k].system,
             count |-> sorted[k].count,
             percentage |-> Percentage(sorted[k].count, total)]]]

\* no call made yet
NoResult == [op |-> "none", arg |-> <<>>, out |-> <<>>]

\* the codes, suppliers and names asked for
QueryCodes == {"A81001", "a81001", "A81002", "a81002"}

QuerySystems == {<<"TPP">>, <<"tpp">>, <<"EMIS">>, <<"Emis">>}

QueryNames == {<<>>, <<"park">>, <<"PARK", " ", "MEDICAL">>, <<"SURGERY">>}

LookupByOdsCode ==
  \E code \in QueryCodes :
    /\ result' = [op |-> "lookup_by_ods_code", arg |-> code,
                  out |-> lookup_by_ods_code(lookup_instance.data, code)]
    /\ UNCHANGED <<lookup_instance, canonVars, concVars, normVars, enrichVars, acqVars,
                 serverVars>>

SearchByName ==
  \E name \in QueryNames, exact \in BOOLEAN :
    /\ result' = [op |-> "search_by_name", arg |-> <<name, exact>>,
                  out |-> search_by_name(lookup_instance.data, name, exact)]
    /\ lookup_instance' = [lookup_instance EXCEPT !.data = SearchedRecords(@)]
    /\ UNCHANGED <<canonVars, concVars, normVars, enrichVars, acqVars, serverVars>>

FilterBySystem ==
  \E system \in QuerySystems :
    /\ result' = [op |-> "filter_by_system", arg |-> system,
                  out |-> filter_by_system(lookup_instance.data, system)]
    /\ UNCHANGED <<lookup_instance, canonVars, concVars, normVars, enrichVars, acqVars,
                 serverVars>>

GetStatistics ==
  /\ result' = [op |-> "get_statistics", arg |-> <<>>,
                out |-> get_statistics(lookup_instance.data)]
  /\ UNCHANGED <<lookup_instance, canonVars, concVars, normVars, enrichVars, acqVars,
                 serverVars>>

\* ------------------------------------------------------------ the inputs
Symbols == {"EVERGREENLIFE", "TPP", "EMIS", "/"}

Jan25 == <<"20", "25", "-", "01">>

Feb25 == <<"20", "25", "-", "02">>

Midlands_Jan_25 == <<"Practice_Level_Crosstab_", "Midlands_", "Jan", "_", "25", ".csv">>

North_East_Jan_25 == <<"Practice_Level_Crosstab_", "North_East_", "Jan", "_", "25", ".csv">>

Midlands_Feb_25 == <<"Practice_Level_Crosstab_", "Midlands_", "Feb", "_", "25", ".csv">>

\* a file of the archive that belongs to neither month
Midlands_Dec_24 == <<"Practice_Level_Crosstab_", "Midlands_", "Dec", "_", "24", ".csv">>

RawHeader == <<"H1", "H2", "H3", "H4">>

RawRow(code, name, systems) == <<"_", code, name, systems>>

ShortRow == <<"_", "A81001", "PARK MEDICAL">>

RawRows ==
  {RawRow(c, "DENSHAM SURGERY", <<"TPP">>) : c \in {"A81001", "A81002"}}
  \cup {RawRow(c, "PARK MEDICAL", <<"EVERGREENLIFE", "/", "EMIS">>) :
          c \in {"A81001", "A81002"}}
  \cup {ShortRow}

RawFiles == {<<RawHeader>> \o r : r \in SeqsUpTo(RawRows, MaxRows)}

OtherFile == <<RawHeader, RawRow("a81001", "OTHER MONTH SURGERY", <<"EMIS">>)>>

\* the extracted archives of SpecNorm: January's, with two regional files of
\* that month and a file of another month; nothing is extracted for February
BigDirs ==
  {[m \in Months |->
      IF m # Jan25 THEN <<>>
      ELSE [f \in {Midlands_Jan_25, North_East_Jan_25, Midlands_Dec_24} |->
              IF f = Midlands_Jan_25 THEN a
              ELSE IF f = North_East_Jan_25 THEN b ELSE OtherFile]] :
     a \in RawFiles, b \in RawFiles}

\* the extracted archives of Spec: January has A81001 in both regional
\* files; February shares A81002 with January
SmallDir ==
  [m \in Months |->
     IF m = Jan25
       THEN [f \in {Midlands_Jan_25, North_East_Jan_25, Midlands_Dec_24} |->
               IF f = Midlands_Jan_25
                 THEN <<RawHeader,
                        RawRow("A81002", "PARK MEDICAL", <<"EVERGREENLIFE", "/", "EMIS">>),
                        RawRow("A81001", "DENSHAM SURGERY", <<"TPP">>)>>
               ELSE IF f = North_East_Jan_25
                 THEN <<RawHeader,
                        RawRow("A81001", "DENSHAM SURGERY", <<"TPP">>),
                        ShortRow>>
               ELSE OtherFile]
       ELSE [f \in {Midlands_Feb_25} |->
               <<RawHeader,
                 RawRow("a81001", "DENSHAM SURGERY", <<"TPP", "/", "EVERGREENLIFE">>),
                 RawRow("A81002", "PARK MEDICAL", <<"EMIS">>)>>]]

\* a row of an enriched dataset
EnrichedRow(icb, code, name, systems, system) == <<icb, code, name, systems, system>>

\* the records of the datasets of SpecQuery: a code twice with different
\* payloads, a code in lower case, a supplier and a name in mixed case; a
\* practice name, which search_by_name cuts, is a sequence of symbols here
QueryRows ==
  { EnrichedRow("00L", "A81001", <<"DENSHAM", " ", "SURGERY">>, <<"TPP">>, <<"TPP">>),
    EnrichedRow("84H", "A81001", <<"PARK", " ", "MEDICAL">>,
                <<"EVERGREENLIFE", "/", "EMIS">>, <<"EMIS">>),
    EnrichedRow("UNKNOWN", "a81001", <<"Park", " ", "Medical">>, <<"Emis">>, <<"Emis">>),
    EnrichedRow("84H", "A81002", <<"PARK", " ", "MEDICAL">>, <<"EMIS">>, <<"EMIS">>) }

QueryFiles == {File(<<EnrichedHeader>> \o r) : r \in SeqsUpTo(QueryRows, MaxRecords)}

\* ------------------------------------- download_gpad.py: main(), step by step
\* .tmp/<month>.zip: absent, not a zip archive, or an archive of files
NoZip == [exists |-> FALSE, valid |-> FALSE, files |-> <<>>]

CorruptZip == [exists |-> TRUE, valid |-> FALSE, files |-> <<>>]

Zip(files) == [exists |-> TRUE, valid |-> TRUE, files |-> files]

\* a row of a file that cannot be decoded as UTF-8
BadRow == <<"\\xff">>

\* the archives of the publication site
JanArchive ==
  Midlands_Jan_25 :> <<RawHeader, RawRow("A81001", "DENSHAM SURGERY", <<"TPP">>)>>

TwoFilesArchive ==
  (Midlands_Jan_25 :> <<RawHeader, BadRow>>)
  @@ (North_East_Jan_25 :>
        <<RawHeader, RawRow("A81002", "PARK MEDICAL", <<"EVERGREENLIFE", "/", "EMIS">>)>>)

\* February's regional file of the same name inside a folder of the archive
Regional_Midlands_Feb_25 == <<"Regional", "/">> \o Midlands_Feb_25

OtherMonthsArchive ==
  (Midlands_Dec_24 :> OtherFile)
  @@ (Midlands_Feb_25 :> <<RawHeader, RawRow("A81002", "PARK MEDICAL", <<"EMIS">>)>>)
  @@ (Regional_Midlands_Feb_25 :>
        <<RawHeader, RawRow("A81001", "DENSHAM SURGERY", <<"TPP">>)>>)

Links == {"jan.zip", "jan_two.zip", "other.zip", "corrupt.zip"}

\* what a link of the site serves
Site ==
  [link \in Links |->
     CASE link = "jan.zip" -> Zip(JanArchive)
       [] link = "jan_two.zip" -> Zip(TwoFilesArchive)
       [] link = "other.zip" -> Zip(OtherMonthsArchive)
       [] link = "corrupt.zip" -> CorruptZip]

\* the download cards of a publication page
Cards ==
  [title : {<<"Annex 1", " ", "CSV">>, <<"Annex 1", " ", "XLSX">>,
            <<"Summary", " ", "CSV">>},
   href : Links]

Pages == SeqsUpTo(Cards, MaxCards)

\* requests.get(url) of line 121: an error, or a page
PageAnswers ==
  {[ok |-> FALSE, cards |-> <<>>]} \cup {[ok |-> TRUE, cards |-> p] : p \in Pages}

\* "word" in text
Contains(text, word) == \E i \in DOMAIN text : text[i] = word

RECURSIVE LinkFrom(_, _)
\* the loop of lines 159-162 from card i on, then lines 164-169
LinkFrom(cards, i) ==
  IF i > Len(cards)
    THEN IF Len(cards) = 0 THEN Raise("No downloads found.")
         ELSE Raise("No Annex 1 CSV downloads found.")
  ELSE IF Contains(cards[i].title, "Annex 1") /\ Contains(cards[i].title, "CSV")
    THEN Return(cards[i].href)
  ELSE LinkFrom(cards, i + 1)

get_download_link_from_response(cards) == LinkFrom(cards, 1)

\* zipfile.extractall(unzip_dir): the archive's files are written into the
\* directory, over files of the same name; other files stay
Extract(dir, files) ==
  [f \in DOMAIN dir \cup DOMAIN files |-> IF f \in DOMAIN files THEN files[f] ELSE dir[f]]

\* open(..., encoding="utf-8") meets bytes it cannot decode
Undecodable(rows) == \E i \in DOMAIN rows : rows[i] = BadRow

NoData == [data |-> <<>>, gp_code_to_name |-> <<>>]

\* the durable artifacts
Durable == [gp |-> gp_suppliers, icb |-> icb_gp_suppliers, map |-> map_file]

\* the normalizer is not running
AcqStopped == {"idle", "done", "failed"}

\* the steps a fatal error can come from
FatalSteps ==
  {"link resolution", "download", "extraction", "file selection", "row processing"}

\* a variant of the except clauses that removes the month's dataset
AfterErrorRemovingOutput(files, m) == [files EXCEPT ![m] = NoFile]

\* lines 64-66, 70-72, 78, 82-84: the error is logged and raised again; no
\* file is written or removed on the way out
AfterError(files, m) == files

\* main() ends with an exception raised in `step`
Fail(step) ==
  /\ acq_pc' = "failed"
  /\ error' = step
  /\ gp_suppliers' = AfterError(gp_suppliers, norm_month)

\* main(month, zip_file) is called; lines 60, 114-132 up to the page request
StartRun(m, zip_file) ==
  /\ acq_pc \in AcqStopped
  /\ norm_month' = m
  /\ durable0' = Durable
  /\ error' = "none"
  /\ processed' = NoData
  /\ input_file_paths' = <<>>
  /\ download_link' = zip_file
  /\ acq_pc' = IF zip_file = None THEN "link" ELSE "download"
  /\ UNCHANGED <<zip_files, tmp_dir, gp_suppliers, canonVars, concVars, enrichVars,
                 queryVars, serverVars>>

\* lines 121-127: fetch the publication page and find the link
ResolveLink ==
  /\ acq_pc = "link"
  /\ \E answer \in PageAnswers :
       LET link == get_download_link_from_response(answer.cards)
       IN  IF ~answer.ok \/ link.kind = "raise"
             THEN Fail("link resolution") /\ UNCHANGED download_link
             ELSE /\ download_link' = link.val
                  /\ acq_pc' = "download"
                  /\ UNCHANGED <<error, gp_suppliers>>
  /\ UNCHANGED <<zip_files, tmp_dir, norm_month, durable0, processed,
                 input_file_paths, canonVars, concVars, enrichVars, queryVars, serverVars>>

\* lines 134-141: fetch the archive and write it to .tmp/<month>.zip
Download ==
  /\ acq_pc = "download"
  /\ \E ok \in BOOLEAN :
       IF ~ok
         THEN Fail("download") /\ UNCHANGED zip_files
         ELSE /\ zip_files' = [zip_files EXCEPT ![norm_month] = Site[download_link]]
              /\ acq_pc' = "unzip"
              /\ UNCHANGED <<error, gp_suppliers>>
  /\ UNCHANGED <<download_link, tmp_dir, norm_month, durable0, processed,
                 input_file_paths, canonVars, concVars, enrichVars, queryVars, serverVars>>

\* unzip_gpad_zip_file, lines 182-192
Unzip ==
  /\ acq_pc = "unzip"
  /\ IF ~zip_files[norm_month].valid
       THEN Fail("extraction") /\ UNCHANGED tmp_dir
       ELSE /\ tmp_dir' = [tmp_dir EXCEPT
                             ![norm_month] = Extract(@, zip_files[norm_month].files)]
            /\ acq_pc' = "select"
            /\ UNCHANGED <<error, gp_suppliers>>
  /\ UNCHANGED <<download_link, zip_files, norm_month, durable0, processed,
                 input_file_paths, canonVars, concVars, enrichVars, queryVars, serverVars>>

\* lines 74-78: list the directory, keep the month's files
SelectFiles ==
  /\ acq_pc = "select"
  /\ \E listing \in Listings(tmp_dir[norm_month]) :
       LET paths == get_data_file_paths(listing, norm_month)
       IN  /\ input_file_paths' = paths
           /\ IF Len(paths) = 0
                THEN Fail("file selection")
                ELSE acq_pc' = "process" /\ UNCHANGED <<error, gp_suppliers>>
  /\ UNCHANGED <<download_link, zip_files, tmp_dir, norm_month, durable0,
                 processed, canonVars, concVars, enrichVars, queryVars, serverVars>>

\* lines 80-84: process_data_files, or the exception it raises
ProcessDataFiles ==
  /\ acq_pc = "process"
  /\ IF \E k \in DOMAIN input_file_paths :
          Undecodable(tmp_dir[norm_month][input_file_paths[k]])
       THEN Fail("row processing") /\ UNCHANGED processed
       ELSE /\ processed' = process_data_files(input_file_paths, tmp_dir[norm_month])
            /\ acq_pc' = "write"
            /\ UNCHANGED <<error, gp_suppliers>>
  /\ UNCHANGED <<download_link, zip_files, tmp_dir, norm_month, durable0,
                 input_file_paths, canonVars, concVars, enrichVars, queryVars, serverVars>>

\* lines 86-91
WriteOutputFile ==
  /\ acq_pc = "write"
  /\ gp_suppliers' =
       [gp_suppliers EXCEPT
          ![norm_month] = write_output_file(processed.data, processed.gp_code_to_name)]
  /\ acq_pc' = "cleanup"
  /\ UNCHANGED <<download_link, zip_files, tmp_dir, norm_month, durable0,
                 error, processed, input_file_paths, canonVars, concVars, enrichVars,
                 queryVars, serverVars>>

\* a variant that removes the archive and leaves the directory
remove_tmp_files_zip_only(zips, dirs, m) ==
  [zips |-> [zips EXCEPT ![m] = NoZip], dirs |-> dirs]

\* lines 268-274: unlink .tmp/<month>.zip, rmtree .tmp/<month>
remove_tmp_files(zips, dirs, m) ==
  [zips |-> [zips EXCEPT ![m] = NoZip], dirs |-> [dirs EXCEPT ![m] = <<>>]]

\* lines 93-97 and the end of main()
RemoveTmpFiles ==
  /\ acq_pc = "cleanup"
  /\ zip_files' = remove_tmp_files(zip_files, tmp_dir, norm_month).zips
  /\ tmp_dir' = remove_tmp_files(zip_files, tmp_dir, norm_month).dirs
  /\ acq_pc' = "done"
  /\ UNCHANGED <<download_link, norm_month, durable0, error, processed,
                 input_file_paths, gp_suppliers, canonVars, concVars, enrichVars,
                 queryVars, serverVars>>

\* ---------------------------------------------------------------- server.py
\* month=None of a tool call, and _lookup_month = None
NoMonth == <<>>

\* the symbols of the artifacts' paths in code point order
SymbolOrder == <<"-", ".csv", "01", "02", "20", "24", "25", "icb_gp_suppliers_">>

SymbolRank(c) == CHOOSE i \in DOMAIN SymbolOrder : SymbolOrder[i] = c

RECURSIVE TextLessFrom(_, _, _)
\* a < b on str, from symbol i on
TextLessFrom(a, b, i) ==
  IF i > Len(b) THEN FALSE
  ELSE IF i > Len(a) THEN TRUE
  ELSE IF a[i] = b[i] THEN TextLessFrom(a, b, i + 1)
  ELSE SymbolRank(a[i]) < SymbolRank(b[i])

TextLess(a, b) == TextLessFrom(a, b, 1)

\* os.path.join(DATA_DIR, f"icb_gp_suppliers_{month}.csv")
ArtifactPath(m) == <<"icb_gp_suppliers_">> \o m \o <<".csv">>

\* the month whose artifact is at `path`
MonthOf(path) == SubSeq(path, 2, Len(path) - 1)

\* glob.glob(os.path.join(DATA_DIR, "icb_gp_suppliers_*.csv"))
GlobArtifacts(artifacts) == {ArtifactPath(m) : m \in {n \in Months : artifacts[n].exists}}

\* max(files)
MaxText(S) == CHOOSE a \in S : \A b \in S : ~TextLess(a, b)

RECURSIVE SortedTexts(_)
\* sorted(files)
SortedTexts(S) ==
  IF S = {} THEN <<>>
  ELSE LET least == CHOOSE a \in S : \A b \in S : ~TextLess(b, a)
       IN  <<least>> \o SortedTexts(S \ {least})

\* _list_available_months, lines 76-82
list_available_months(artifacts) ==
  LET files == SortedTexts(GlobArtifacts(artifacts))
  IN  [i \in DOMAIN files |-> MonthOf(files[i])]

\* a variant that serves the latest artifact when the month's is missing
find_data_file_falling_back(m, artifacts) ==
  IF m # NoMonth /\ artifacts[m].exists THEN Return(ArtifactPath(m))
  ELSE IF GlobArtifacts(artifacts) # {} THEN Return(MaxText(GlobArtifacts(artifacts)))
  ELSE Raise("FileNotFoundError")

\* _find_data_file, lines 55-73
find_data_file(m, artifacts) ==
  IF m # NoMonth
    THEN IF artifacts[m].exists THEN Return(ArtifactPath(m))
         ELSE Raise("FileNotFoundError")
  ELSE IF GlobArtifacts(artifacts) # {} THEN Return(MaxText(GlobArtifacts(artifacts)))
  ELSE Raise("FileNotFoundError")

\* the two globals of lines 49-50
Globals(instance, m) == [instance |-> instance, month |-> m]

\* a variant that builds an object only when there is none
get_lookup_ignoring_month(m, artifacts, instance, cached_month) ==
  IF instance = NoInstance
    THEN LET data_file == find_data_file(m, artifacts)
         IN  IF data_file.kind = "raise" THEN data_file
             ELSE LET object ==
                        GPSupplierLookup(data_file.val, artifacts[MonthOf(data_file.val)])
                  IN  IF object.kind = "raise" THEN object
                      ELSE Return(Globals(object.val, m))
    ELSE Return(Globals(instance, cached_month))

\* _get_lookup, lines 85-92: the globals after the call, or the exception
get_lookup(m, artifacts, instance, cached_month) ==
  IF instance = NoInstance \/ m # cached_month
    THEN LET data_file == find_data_file(m, artifacts)
         IN  IF data_file.kind = "raise" THEN data_file
             ELSE LET object ==
                        GPSupplierLookup(data_file.val, artifacts[MonthOf(data_file.val)])
                  IN  IF object.kind = "raise" THEN object
                      ELSE Return(Globals(object.val, m))
    ELSE Return(Globals(instance, cached_month))

\* a variant that leaves the globals as they are
invalidate_cache_keeping(instance, cached_month) == Globals(instance, cached_month)

\* _invalidate_cache, lines 95-99
invalidate_cache(instance, cached_month) == Globals(NoInstance, NoMonth)

\* what a tool returns, by its parts: the tool, its arguments, whether the
\* text is an error message, the records or figures the text is made of
Reply(tool, m, arg, failed, out) ==
  [tool |-> tool, month |-> m, arg |-> arg, error |-> failed, out |-> out]

NoReply == Reply("none", NoMonth, <<>>, FALSE, <<>>)

QueryTools == {"gp_lookup_by_ods_code", "gp_get_statistics"}

\* the months a tool is called with
ToolMonths == Months \cup {NoMonth}

\* the codes gp_lookup_by_ods_code is called with
ToolCodes == {"A81001", "a81002"}

\* lines 125-143: the globals go to the object in use, the reply is made of
\* the record found in it; FileNotFoundError becomes the reply
gp_lookup_by_ods_code(code, m) ==
  /\ LET got == get_lookup(m, icb_gp_suppliers, lookup_instance, lookup_month)
     IN  IF got.kind = "raise"
           THEN /\ reply' = Reply("gp_lookup_by_ods_code", m, <<code>>, TRUE,
                                  list_available_months(icb_gp_suppliers))
                /\ missed' = TRUE
                /\ UNCHANGED <<lookup_instance, lookup_month>>
           ELSE /\ lookup_instance' = got.val.instance
                /\ lookup_month' = got.val.month
                /\ reply' = Reply("gp_lookup_by_ods_code", m, <<code>>, FALSE,
                                  lookup_by_ods_code(got.val.instance.data, code))
                /\ UNCHANGED missed
  /\ UNCHANGED <<result, dropped, canonVars, concVars, normVars, enrichVars, acqVars>>

\* lines 243-267: the same, the reply made of the statistics and of the
\* months available
gp_get_statistics(m) ==
  /\ LET got == get_lookup(m, icb_gp_suppliers, lookup_instance, lookup_month)
     IN  IF got.kind = "raise"
           THEN /\ reply' = Reply("gp_get_statistics", m, <<>>, TRUE,
                                  list_available_months(icb_gp_suppliers))
                /\ missed' = TRUE
                /\ UNCHANGED <<lookup_instance, lookup_month>>
           ELSE /\ lookup_instance' = got.val.instance
                /\ lookup_month' = got.val.month
                /\ reply' =
                     Reply("gp_get_statistics", m, <<>>, FALSE,
                           [stats |-> get_statistics(got.val.instance.data),
                            months |-> list_available_months(icb_gp_suppliers)])
                /\ UNCHANGED missed
  /\ UNCHANGED <<result, dropped, canonVars, concVars, normVars, enrichVars, acqVars>>

\* what get_commissioner_code returns for each code during one update: a
\* commissioner for the codes the registry knows at that time, None for the
\* others
Registries ==
  {[c \in OdsCodes |-> IF c \in known THEN "00L" ELSE None] :
     known \in SUBSET {"A81001", "A81002"}}

RECURSIVE EnrichRows(_, _, _, _, _, _)
\* the row loop of enrich_gp_data.main() from row i on, in one piece:
\* registry[code] is what the lookup of `code` returns
EnrichRows(rows, i, cache, file, out, registry) ==
  IF i > Len(rows) THEN [new_rows |-> out, map_file |-> file]
  ELSE LET code == rows[i]["GP_ODS_CODE"]
           cached == Get(cache, code)
           got == registry[code]
       IN  IF CacheHit(cached)
             THEN EnrichRows(rows, i + 1, cache, file,
                             Append(out, WithCommissioner(rows[i], cached)), registry)
           ELSE IF Found(got)
             THEN EnrichRows(rows, i + 1, Put(cache, code, got),
                             append_to_map(file, code, got),
                             Append(out, WithCommissioner(rows[i], got)), registry)
           ELSE EnrichRows(rows, i + 1, cache, file,
                           Append(out, WithCommissioner(rows[i], "UNKNOWN")), registry)

\* enrich_gp_data.main() on an existing dataset, in one piece
enrich_main(suppliers, file, registry) ==
  LET end == EnrichRows(DictRows(suppliers), 1, load_map(file), file, <<>>, registry)
  IN  [icb |-> WriteDictRows(EnrichedHeader, end.new_rows), map |-> end.map_file]

\* gp_update_data, lines 278-335: download_gpad.main() fails (nothing under
\* execution/data is written) or writes the month's dataset; the enricher
\* then writes the enriched dataset; the globals are reset at the end
gp_update_data(m) ==
  /\ \E step1 \in BOOLEAN :
       IF ~step1
         THEN /\ reply' = Reply("gp_update_data", m, <<>>, TRUE, <<>>)
              /\ UNCHANGED <<gp_suppliers, icb_gp_suppliers, map_file,
                             lookup_instance, lookup_month, input_file_paths,
                             norm_month, dropped>>
         ELSE \E listing \in Listings(tmp_dir[m]), registry \in Registries :
                \E paths \in {get_data_file_paths(listing, m)} :
                  IF Len(paths) = 0
                    THEN /\ reply' = Reply("gp_update_data", m, <<>>, TRUE, <<>>)
                         /\ UNCHANGED <<gp_suppliers, icb_gp_suppliers, map_file,
                                        lookup_instance, lookup_month,
                                        input_file_paths, norm_month, dropped>>
                    ELSE \E suppliers \in {NormalizerOutput(m, listing)} :
                           \E enriched \in {enrich_main(suppliers, map_file, registry)},
                              globals \in {invalidate_cache(lookup_instance,
                                                            lookup_month)} :
                             /\ gp_suppliers' = [gp_suppliers EXCEPT ![m] = suppliers]
                             /\ icb_gp_suppliers' =
                                  [icb_gp_suppliers EXCEPT ![m] = enriched.icb]
                             /\ map_file' = enriched.map
                             /\ lookup_instance' = globals.instance
                             /\ lookup_month' = globals.month
                             /\ dropped' = lookup_instance
                             /\ input_file_paths' = paths
                             /\ norm_month' = m
                             /\ reply' = Reply("gp_update_data", m, <<>>, FALSE, <<>>)
  /\ UNCHANGED <<result, missed, tmp_dir, canonVars, concVars, acqVars, pc, month,
                 memVars, runs>>

\* ------------------------- enrich_gp_data.py: two processes on one cache file
\* the processes that run main(), each once and with its own memory; the
\* files are shared.  The waits (time.sleep) change no state and are left out.
Procs == {1, 2}

\* a process that has not run
ProcIdle ==
  [pc |-> "idle", month |-> Jan25, ods_map |-> <<>>, idx |-> 0, icb_code |-> None,
   new_rows |-> <<>>, file_exists |-> FALSE]

\* the rows the reader of process p yields, and the row and code in hand
ProcRows(p) == DictRows(gp_suppliers[procs[p].month])

ProcCode(p) == ProcRows(p)[procs[p].idx]["GP_ODS_CODE"]

\* another process is inside main()
OthersRunning(p) ==
  \E q \in Procs \ {p} : procs[q].pc \notin {"idle", "exited", "done", "failed"}

\* the process is started: lines 123-144
ProcStart(p, m) ==
  /\ procs[p].pc = "idle"
  /\ procs' = [procs EXCEPT ![p] =
                 IF ~gp_suppliers[m].exists
                   THEN [ProcIdle EXCEPT !.month = m, !.pc = "exited"]
                   ELSE [pc |-> "loop", month |-> m, ods_map |-> load_map(map_file),
                         idx |-> 1, icb_code |-> None, new_rows |-> <<>>,
                         file_exists |-> FALSE]]
  /\ overlapped' = (overlapped \/ OthersRunning(p))
  /\ UNCHANGED <<queryVars, acqVars, serverVars, canonVars, normVars, enrichVars>>

\* lines 146-150 and, on a cache hit, 164-166
ProcNextRow(p) ==
  /\ procs[p].pc = "loop"
  /\ procs[p].idx <= Len(ProcRows(p))
  /\ LET cached == Get(procs[p].ods_map, ProcCode(p))
     IN  procs' = [procs EXCEPT ![p] =
           IF CacheHit(cached)
             THEN [@ EXCEPT !.new_rows =
                              Append(@, WithCommissioner(ProcRows(p)[procs[p].idx], cached)),
                            !.idx = @ + 1]
             ELSE [@ EXCEPT !.icb_code = cached, !.pc = "request"]]
  /\ UNCHANGED <<overlapped, queryVars, acqVars, serverVars, canonVars, normVars,
                 enrichVars>>

\* get_commissioner_code has ended with `outcome` (lines 152-154)
ProcLookupEnds(p, outcome) ==
  IF outcome.kind = "return"
    THEN procs' = [procs EXCEPT ![p].icb_code = outcome.val, ![p].pc = "record"]
    ELSE procs' = [procs EXCEPT ![p].pc = "failed"]

\* line 68 and, unless the answer is 429, lines 74-111
ProcRequest(p) ==
  /\ procs[p].pc = "request"
  /\ \E response \in Responses :
       IF response.status = 0 THEN ProcLookupEnds(p, Handle(Raise("ConnectionError")))
       ELSE IF ShouldRetry(response) THEN procs' = [procs EXCEPT ![p].pc = "retry"]
       ELSE ProcLookupEnds(p, Handle(Evaluate(response)))
  /\ UNCHANGED <<overlapped, queryVars, acqVars, serverVars, canonVars, normVars,
                 enrichVars>>

\* line 72 and lines 74-111 on the second answer
ProcRetry(p) ==
  /\ procs[p].pc = "retry"
  /\ \E response \in Responses :
       IF response.status = 0 THEN ProcLookupEnds(p, Handle(Raise("ConnectionError")))
       ELSE ProcLookupEnds(p, Handle(Evaluate(response)))
  /\ UNCHANGED <<overlapped, queryVars, acqVars, serverVars, canonVars, normVars,
                 enrichVars>>

\* lines 156-162 up to the call of append_to_map
ProcRecord(p) ==
  /\ procs[p].pc = "record"
  /\ procs' = [procs EXCEPT ![p] =
                 IF Found(@.icb_code)
                   THEN [@ EXCEPT !.ods_map = Put(@, ProcCode(p), procs[p].icb_code),
                                  !.pc = "exists"]
                   ELSE [@ EXCEPT !.icb_code = "UNKNOWN", !.pc = "append_row"]]
  /\ UNCHANGED <<overlapped, queryVars, acqVars, serverVars, canonVars, normVars,
                 enrichVars>>

\* line 54: file_exists = os.path.exists(map_file)
ProcFileExists(p) ==
  /\ procs[p].pc = "exists"
  /\ procs' = [procs EXCEPT ![p].file_exists = map_file.exists, ![p].pc = "write"]
  /\ UNCHANGED <<overlapped, queryVars, acqVars, serverVars, canonVars, normVars,
                 enrichVars>>

\* lines 55-59 with file_exists as line 54 found it: the header when the
\* file was not there, then the row, at the end of the file as it is now
write_map_rows(file, file_exists, code_of_practice, code) ==
  File(file.rows
       \o (IF ~file_exists THEN <<MapHeader>> ELSE <<>>)
       \o <<<<code, code_of_practice>>>>)

\* lines 55-59
ProcWriteMap(p) ==
  /\ procs[p].pc = "write"
  /\ map_file' = write_map_rows(map_file, procs[p].file_exists, ProcCode(p),
                                procs[p].icb_code)
  /\ procs' = [procs EXCEPT ![p].pc = "append_row"]
  /\ UNCHANGED <<overlapped, queryVars, acqVars, serverVars, canonVars, normVars,
                 icb_gp_suppliers, pc, month, memVars, runs>>

\* lines 164-166 after a lookup
ProcAppendRow(p) ==
  /\ procs[p].pc = "append_row"
  /\ procs' = [procs EXCEPT ![p] =
                 [@ EXCEPT !.new_rows =
                             Append(@, WithCommissioner(ProcRows(p)[procs[p].idx],
                                                        procs[p].icb_code)),
                           !.idx = @ + 1,
                           !.pc = "loop"]]
  /\ UNCHANGED <<overlapped, queryVars, acqVars, serverVars, canonVars, normVars,
                 enrichVars>>

\* lines 171-178
ProcWriteOutput(p) ==
  /\ procs[p].pc = "loop"
  /\ procs[p].idx > Len(ProcRows(p))
  /\ icb_gp_suppliers' =
       [icb_gp_suppliers EXCEPT
          ![procs[p].month] = WriteDictRows(EnrichedHeader, procs[p].new_rows)]
  /\ procs' = [procs EXCEPT ![p].pc = "done"]
  /\ UNCHANGED <<overlapped, queryVars, acqVars, serverVars, canonVars, normVars,
                 map_file, pc, month, memVars, runs>>

\* --------------------------------------------------------- specifications
CanonIdle ==
  /\ value = <<>>
  /\ main_system = <<>>
  /\ resolved = TRUE

NormStart ==
  /\ input_file_paths = <<>>
  /\ norm_month = Jan25
  /\ gp_suppliers = [m \in Months |-> NoFile]

EnrichStart ==
  /\ icb_gp_suppliers = [m \in Months |-> NoFile]
  /\ map_file = NoFile
  /\ pc = "idle"
  /\ month = Jan25
  /\ ods_map = <<>>
  /\ idx = 0
  /\ icb_code = None
  /\ new_rows = <<>>
  /\ api_calls = 0
  /\ runs = 0
  /\ cache0 = <<>>
  /\ map0 = NoFile
  /\ calls = <<>>
  /\ log = <<>>

QueryIdle ==
  /\ lookup_instance = NoInstance
  /\ result = NoResult

AcqIdle ==
  /\ acq_pc = "idle"
  /\ download_link = None
  /\ zip_files = [m \in Months |-> NoZip]
  /\ processed = NoData
  /\ error = "none"
  /\ durable0 = [gp |-> [m \in Months |-> NoFile],
                 icb |-> [m \in Months |-> NoFile],
                 map |-> NoFile]

ServerIdle ==
  /\ lookup_month = NoMonth
  /\ reply = NoReply
  /\ missed = FALSE
  /\ dropped = NoInstance

ConcIdle ==
  /\ procs = [p \in Procs |-> ProcIdle]
  /\ overlapped = FALSE

OtherIdle == QueryIdle /\ AcqIdle /\ ServerIdle /\ ConcIdle

\* the pipeline: normalizer runs and enricher runs, one at a time
Init ==
  /\ OtherIdle
  /\ CanonIdle
  /\ tmp_dir = SmallDir
  /\ NormStart
  /\ EnrichStart

Next ==
  \/ \E m \in Months : DownloadGpadMain(m)
  \/ \E m \in Months : StartEnrich(m)
  \/ NextRow
  \/ Request
  \/ Backoff
  \/ Retry
  \/ RateLimitDelay
  \/ Record
  \/ AppendToMap
  \/ AppendRow
  \/ WriteOutput
  \/ Crash

Spec == Init /\ [][Next]_vars

\* the normalizer alone, over every small archive
InitNorm ==
  /\ OtherIdle
  /\ CanonIdle
  /\ tmp_dir \in BigDirs
  /\ NormStart
  /\ EnrichStart

NextNorm == \E m \in Months : DownloadGpadMain(m)

SpecNorm == InitNorm /\ [][NextNorm]_vars

\* get_main_system_from_value alone, over every short supplier field
InitCanon ==
  /\ OtherIdle
  /\ value \in SeqsUpTo(Symbols, MaxLen)
  /\ main_system = <<>>
  /\ resolved = FALSE
  /\ tmp_dir = SmallDir
  /\ NormStart
  /\ EnrichStart

NextCanon == ResolveCanonical

SpecCanon == InitCanon /\ [][NextCanon]_vars

\* a dataset of January written by an earlier run, its enriched dataset and
\* the commissioner cache of that run
OldSuppliers ==
  File(<<SuppliersHeader, <<"A81002", "OLD SURGERY", <<"EMIS">>, <<"EMIS">>>>>>)

OldEnriched ==
  File(<<EnrichedHeader, <<"84H", "A81002", "OLD SURGERY", <<"EMIS">>, <<"EMIS">>>>>>)

OldMap == File(<<MapHeader, <<"84H", "A81002">>>>)

\* the query engine alone: an object loaded from January's enriched
\* dataset, which is any small dataset, and its methods called in any order
InitQuery ==
  /\ CanonIdle
  /\ tmp_dir = SmallDir
  /\ NormStart
  /\ \E f \in QueryFiles :
       /\ icb_gp_suppliers = [m \in Months |-> IF m = Jan25 THEN f ELSE NoFile]
       /\ lookup_instance = GPSupplierLookup(Jan25, f).val
  /\ map_file = OldMap
  /\ pc = "idle"
  /\ month = Jan25
  /\ ods_map = <<>>
  /\ idx = 0
  /\ icb_code = None
  /\ new_rows = <<>>
  /\ api_calls = 0
  /\ runs = 0
  /\ cache0 = <<>>
  /\ map0 = NoFile
  /\ calls = <<>>
  /\ log = <<>>
  /\ result = NoResult
  /\ AcqIdle
  /\ ServerIdle
  /\ ConcIdle

NextQuery ==
  \/ LookupByOdsCode
  \/ SearchByName
  \/ FilterBySystem
  \/ GetStatistics

SpecQuery == InitQuery /\ [][NextQuery]_vars

\* the datasets the normalizer writes from the archives of Spec
SmallSuppliers ==
  [m \in Months |->
     LET out == process_data_files(
                  get_data_file_paths(CHOOSE l \in Listings(SmallDir[m]) : TRUE, m),
                  SmallDir[m])
     IN  write_output_file(out.data, out.gp_code_to_name)]

\* the cache file before the first run: absent, of zero bytes, or a header
EmptyCaches == {NoFile, File(<<>>), File(<<MapHeader>>)}

\* enricher runs one after the other on the datasets of both months,
\* starting from an absent or empty cache file
InitCache ==
  /\ OtherIdle
  /\ CanonIdle
  /\ tmp_dir = SmallDir
  /\ input_file_paths = <<>>
  /\ norm_month = Jan25
  /\ gp_suppliers = SmallSuppliers
  /\ icb_gp_suppliers = [m \in Months |-> NoFile]
  /\ map_file \in EmptyCaches
  /\ pc = "idle"
  /\ month = Jan25
  /\ ods_map = <<>>
  /\ idx = 0
  /\ icb_code = None
  /\ new_rows = <<>>
  /\ api_calls = 0
  /\ runs = 0
  /\ cache0 = <<>>
  /\ map0 = NoFile
  /\ calls = <<>>
  /\ log = <<>>

NextCache ==
  \/ \E m \in Months : StartEnrich(m)
  \/ NextRow
  \/ Request
  \/ Backoff
  \/ Retry
  \/ RateLimitDelay
  \/ Record
  \/ AppendToMap
  \/ AppendRow
  \/ WriteOutput
  \/ Crash

SpecCache == InitCache /\ [][NextCache]_vars

\* two processes run main() side by side on the datasets of both months and
\* one cache file, which does not exist at the start
InitConc ==
  /\ OtherIdle
  /\ CanonIdle
  /\ tmp_dir = SmallDir
  /\ input_file_paths = <<>>
  /\ norm_month = Jan25
  /\ gp_suppliers = SmallSuppliers
  /\ icb_gp_suppliers = [m \in Months |-> NoFile]
  /\ map_file = NoFile
  /\ pc = "idle"
  /\ month = Jan25
  /\ ods_map = <<>>
  /\ idx = 0
  /\ icb_code = None
  /\ new_rows = <<>>
  /\ api_calls = 0
  /\ runs = 0
  /\ cache0 = <<>>
  /\ map0 = NoFile
  /\ calls = <<>>
  /\ log = <<>>

NextConc ==
  \E p \in Procs :
    \/ \E m \in Months : ProcStart(p, m)
    \/ ProcNextRow(p)
    \/ ProcRequest(p)
    \/ ProcRetry(p)
    \/ ProcRecord(p)
    \/ ProcFileExists(p)
    \/ ProcWriteMap(p)
    \/ ProcAppendRow(p)
    \/ ProcWriteOutput(p)

SpecConc == InitConc /\ [][NextConc]_vars

\* the normalizer step by step, on a data directory that holds the
\* artifacts of an earlier run; nothing is left in .tmp
InitAcq ==
  /\ CanonIdle
  /\ QueryIdle
  /\ ServerIdle
  /\ ConcIdle
  /\ tmp_dir = [m \in Months |-> <<>>]
  /\ input_file_paths = <<>>
  /\ norm_month = Jan25
  /\ gp_suppliers = [m \in Months |-> IF m = Jan25 THEN OldSuppliers ELSE NoFile]
  /\ icb_gp_suppliers = [m \in Months |-> IF m = Jan25 THEN OldEnriched ELSE NoFile]
  /\ map_file = OldMap
  /\ pc = "idle"
  /\ month = Jan25
  /\ ods_map = <<>>
  /\ idx = 0
  /\ icb_code = None
  /\ new_rows = <<>>
  /\ api_calls = 0
  /\ runs = 0
  /\ cache0 = <<>>
  /\ map0 = NoFile
  /\ calls = <<>>
  /\ log = <<>>
  /\ acq_pc = "idle"
  /\ download_link = None
  /\ zip_files = [m \in Months |-> NoZip]
  /\ processed = NoData
  /\ error = "none"
  /\ durable0 = Durable

NextAcq ==
  \/ \E m \in Months, zip_file \in Links \cup {None} : StartRun(m, zip_file)
  \/ ResolveLink
  \/ Download
  \/ Unzip
  \/ SelectFiles
  \/ ProcessDataFiles
  \/ WriteOutputFile
  \/ RemoveTmpFiles

SpecAcq == InitAcq /\ [][NextAcq]_vars

\* the server: tool calls one at a time, on the archives of Spec; no
\* artifact exists when the server starts
InitServer ==
  /\ OtherIdle
  /\ CanonIdle
  /\ tmp_dir = SmallDir
  /\ NormStart
  /\ EnrichStart

NextServer ==
  \/ \E code \in ToolCodes, m \in ToolMonths : gp_lookup_by_ods_code(code, m)
  \/ \E m \in ToolMonths : gp_get_statistics(m)
  \/ \E m \in Months : gp_update_data(m)

SpecServer == InitServer /\ [][NextServer]_vars

\* ------------------------------------------------- canonical supplier (C6, C7)
\* the positions of the separators in the field given
Slashes == {i \in DOMAIN value : value[i] = "/"}

\* the tokens of the field, read off the separators: a token lies between
\* two neighbouring separators (or the ends of the field)
Cuts == Slashes \cup {0, Len(value) + 1}

TokensOfValue ==
  {SubSeq(value, a + 1, b - 1) :
     <<a, b>> \in {c \in Cuts \X Cuts :
                     /\ c[1] < c[2]
                     /\ \A k \in Cuts : ~(c[1] < k /\ k < c[2])}}

FirstSlash == CHOOSE i \in Slashes : \A j \in Slashes : i <= j

\* the first token of a field with a separator
FirstToken == SubSeq(value, 1, FirstSlash - 1)

\* what follows the first separator, up to the second one or the end
SecondToken ==
  LET rest == {j \in Cuts : j > FirstSlash}
      stop == CHOOSE j \in rest : \A k \in rest : j <= k
  IN  SubSeq(value, FirstSlash + 1, stop - 1)

\* C6: a single-token field resolves to that token; a two-token field resolves
\* to its second token when the first is EVERGREENLIFE, to its first token when
\* the second is EVERGREENLIFE, and to its first token otherwise; for every
\* field the result is one of the field's tokens.
C6_CanonicalOneOrTwoTokens ==
  resolved =>
    /\ Slashes = {} => main_system = value
    /\ Cardinality(Slashes) = 1 =>
         /\ FirstToken = <<"EVERGREENLIFE">> => main_system = SecondToken
         /\ SecondToken = <<"EVERGREENLIFE">> => main_system = FirstToken
         /\ (FirstToken # <<"EVERGREENLIFE">> /\ SecondToken # <<"EVERGREENLIFE">>)
              => main_system = FirstToken
    /\ main_system \in TokensOfValue

\* C6 witness: "EVERGREENLIFE/TPP" has been resolved, to "TPP"
C6_Witness ==
  /\ resolved
  /\ value = <<"EVERGREENLIFE", "/", "TPP">>
  /\ main_system = <<"TPP">>

\* C7 as claimed: a field of three or more tokens resolves to its first token,
\* also when its first or second token is EVERGREENLIFE.
C7_LongFieldFirstToken ==
  (resolved /\ Cardinality(Slashes) >= 2) => main_system = FirstToken

\* C7 as amended: a field of three or more tokens resolves to its second token
\* when its first token is EVERGREENLIFE, and to its first token otherwise
\* (also when its second token is EVERGREENLIFE).
C7_LongFieldRule ==
  (resolved /\ Cardinality(Slashes) >= 2) =>
    main_system = IF FirstToken = <<"EVERGREENLIFE">> THEN SecondToken ELSE FirstToken

\* C7 witness: "EVERGREENLIFE/TPP/EMIS" has been resolved, to "TPP"
C7_Witness ==
  /\ resolved
  /\ value = <<"EVERGREENLIFE", "/", "TPP", "/", "EMIS">>
  /\ main_system = <<"TPP">>

\* ------------------------------------------------------ normalizer (C8 - C10)
\* the data rows of a raw file that the row loop accepts, in row order
AcceptedOf(rows) ==
  SelectSeq([i \in 1..(Len(rows) - 1) |-> rows[i + 1]], LAMBDA r : Len(r) >= 4)

RECURSIVE AcceptedRows(_, _, _)
\* the accepted rows of the files paths[k], paths[k+1], ... in file-then-row order
AcceptedRows(paths, dir, k) ==
  IF k > Len(paths) THEN <<>>
  ELSE AcceptedOf(dir[paths[k]]) \o AcceptedRows(paths, dir, k + 1)

\* the accepted rows the last normalizer run read
LastAccepted == AcceptedRows(input_file_paths, tmp_dir[norm_month], 1)

\* the first row of a sequence of rows that carries the code
FirstRowOf(code, rows) ==
  rows[CHOOSE i \in DOMAIN rows :
         /\ rows[i][2] = code
         /\ \A j \in DOMAIN rows : rows[j][2] = code => i <= j]

\* the normalizer has written the dataset of norm_month from input_file_paths
NormalizerWrote == Len(input_file_paths) > 0

\* C8: every record of the dataset the normalizer wrote has the name, the raw
\* supplier field and the canonical supplier of the first accepted row, in
\* file-then-row order, that carries the record's ods_code.
C8_FirstOccurrenceWins ==
  NormalizerWrote =>
    LET out == gp_suppliers[norm_month].rows
    IN  \A i \in 2..Len(out) :
          /\ \E j \in DOMAIN LastAccepted : LastAccepted[j][2] = out[i][1]
          /\ LET first == FirstRowOf(out[i][1], LastAccepted)
             IN  /\ out[i][2] = first[3]
                 /\ out[i][3] = first[4]
                 /\ out[i][4] = get_main_system_from_value(first[4])

\* C8 witness: the run read two accepted rows of one code with different names
\* and suppliers, from two files
C8_Witness ==
  /\ NormalizerWrote
  /\ Len(input_file_paths) = 2
  /\ \E a \in DOMAIN AcceptedOf(tmp_dir[norm_month][input_file_paths[1]]) :
     \E b \in DOMAIN AcceptedOf(tmp_dir[norm_month][input_file_paths[2]]) :
       LET ra == AcceptedOf(tmp_dir[norm_month][input_file_paths[1]])[a]
           rb == AcceptedOf(tmp_dir[norm_month][input_file_paths[2]])[b]
       IN  ra[2] = rb[2] /\ ra[3] # rb[3] /\ ra[4] # rb[4]

\* the files of the month's extracted archive whose name has the month's suffix
MatchedFiles(m) == {f \in DOMAIN tmp_dir[m] : EndsWith(f, SearchString(m))}

\* the ods_codes of the accepted rows of the month's files
AcceptedCodes(m) ==
  UNION {{tmp_dir[m][f][i][2] :
            i \in {j \in 2..Len(tmp_dir[m][f]) : Len(tmp_dir[m][f][j]) >= 4}} :
         f \in MatchedFiles(m)}

\* the data rows of a dataset hold, in column col, each code of the set once,
\* in strictly ascending order
SortedUnique(file, col, codes) ==
  LET rows == file.rows
  IN  /\ {rows[i][col] : i \in 2..Len(rows)} = codes
      /\ \A i \in 2..(Len(rows) - 1) : StrLess(rows[i][col], rows[i + 1][col])

\* C9: the partial dataset the normalizer wrote and the enriched dataset the
\* enricher wrote each hold exactly one row per distinct ods_code of the
\* accepted input rows, in strictly ascending ods_code order.
C9_SortedUniqueArtifacts ==
  \A m \in Months :
    /\ gp_suppliers[m].exists => SortedUnique(gp_suppliers[m], 1, AcceptedCodes(m))
    /\ icb_gp_suppliers[m].exists => SortedUnique(icb_gp_suppliers[m], 2, AcceptedCodes(m))

\* C9 witness: both datasets of January are written; its raw files hold
\* A81002 before A81001, and A81001 twice
C9_Witness ==
  /\ gp_suppliers[Jan25].exists
  /\ icb_gp_suppliers[Jan25].exists
  /\ Len(icb_gp_suppliers[Jan25].rows) = 3
  /\ tmp_dir[Jan25][Midlands_Jan_25][2][2] = "A81002"

\* C10: the dataset the normalizer writes for a month is the same whatever
\* order the directory listing enumerates the month's files in, so two runs
\* on the same extracted files write the same dataset.
C10_ListingOrderIrrelevant ==
  \A m \in Months :
    gp_suppliers[m].exists =>
      \A listing \in Listings(tmp_dir[m]) : gp_suppliers[m] = NormalizerOutput(m, listing)

\* --------------------------------------------------------- enricher (C1 - C5)
\* the code the cache file holds for an ods_code: that of the last data row
\* of the ods_code, None when the file has no such row
CacheValue(file, code) ==
  LET hits == {i \in 2..Len(file.rows) : file.rows[i][2] = code}
  IN  IF hits = {} THEN None
      ELSE file.rows[CHOOSE i \in hits : \A j \in hits : j <= i][1]

\* a run has loaded the cache and has not been killed
RunInHand == pc \notin {"idle", "failed"}

\* main() is inside the lookup branch of the row in hand
InLookup == {"request", "backoff", "retry", "delay", "record", "append_map", "append_row"}

C1_Inv ==
  RunInHand =>
    \A c \in OdsCodes :
      LET X == CacheValue(map0, c)
      IN  Truthy(X) =>
            /\ CacheValue(map_file, c) = X
            /\ Get(ods_map, c) = X
            /\ pc \in InLookup => ods_code # c
            /\ \A i \in DOMAIN log :
                 log[i].ods_code = c => log[i].requests = 0 /\ log[i].icb_code = X
            /\ \A i \in DOMAIN new_rows :
                 new_rows[i]["GP_ODS_CODE"] = c => new_rows[i]["ICB Sub location"] = X
            /\ pc = "done" =>
                 \A i \in 2..Len(icb_gp_suppliers[month].rows) :
                   icb_gp_suppliers[month].rows[i][2] = c
                     => icb_gp_suppliers[month].rows[i][1] = X

C1_Step ==
  \A c \in OdsCodes :
    Truthy(CacheValue(map_file, c)) => CacheValue(map_file', c) = CacheValue(map_file, c)

\* C1: once the cache file holds a code X for an ods_code, no step changes the
\* value it holds for that ods_code, and a run that starts with X in the cache
\* sends no registry request for the ods_code and writes X as its commissioner.
C1_CacheMonotonic == []C1_Inv /\ [][C1_Step]_vars

\* C1 witness: a run for February has ended that found A81002 in the cache
\* with 00L, and wrote it
C1_Witness ==
  /\ pc = "done"
  /\ month = Feb25
  /\ CacheValue(map0, "A81002") = "00L"
  /\ \E i \in DOMAIN log : log[i].ods_code = "A81002" /\ log[i].requests = 0
  /\ \E i \in 2..Len(icb_gp_suppliers[Feb25].rows) :
       icb_gp_suppliers[Feb25].rows[i] = <<"00L", "A81002", "PARK MEDICAL", <<"EMIS">>, <<"EMIS">>>>

\* a step of main() from load to write
RunStep ==
  \/ NextRow \/ Request \/ Backoff \/ Retry \/ RateLimitDelay
  \/ Record \/ AppendToMap \/ AppendRow \/ WriteOutput

\* C2: whatever the registry answers, no exception ends the run and the run
\* can always go on; the rows it collects, and writes at its end, are the
\* input's rows one for one and in order, each with a commissioner in front,
\* which is UNKNOWN when the row's lookup failed.
C2_EnrichmentResilient ==
  /\ pc # "failed"
  /\ pc \notin Stopped => ENABLED RunStep
  /\ RunInHand =>
       /\ Len(new_rows) = Len(log)
       /\ Len(new_rows) <= Len(InputRows)
       /\ \A i \in DOMAIN new_rows :
            /\ \A f \in DOMAIN InputRows[i] : new_rows[i][f] = InputRows[i][f]
            /\ log[i].failed => new_rows[i]["ICB Sub location"] = "UNKNOWN"
  /\ pc = "done" =>
       LET out == icb_gp_suppliers[month].rows
           inp == gp_suppliers[month].rows
       IN  /\ Len(out) = Len(inp)
           /\ \A i \in 2..Len(out) :
                /\ out[i] = <<new_rows[i - 1]["ICB Sub location"]>> \o inp[i]
                /\ log[i - 1].failed => out[i][1] = "UNKNOWN"

\* C2 witness: a run over two rows has ended; the lookup of the first row
\* failed after one request, that of the second after a 429, the wait and an
\* answer whose body is no dict; both rows are written, as UNKNOWN
C2_Witness ==
  /\ pc = "done"
  /\ api_calls = 2
  /\ Len(icb_gp_suppliers[month].rows) = 3
  /\ log[1].failed /\ log[1].requests = 1
  /\ log[2].failed /\ log[2].requests = 2
  /\ icb_gp_suppliers[month].rows[2][1] = "UNKNOWN"
  /\ icb_gp_suppliers[month].rows[3][1] = "UNKNOWN"
  /\ calls = <<"429", "sleep 5", "number">>

\* C3: a row whose ods_code the cache did not hold when the run started gets
\* a registry request; when its lookup fails, neither the in-memory cache nor
\* the cache file holds a row for it afterwards (so the next run asks again).
C3_MissNotCachedAndRetried ==
  RunInHand =>
    \A i \in DOMAIN log :
      LET c == log[i].ods_code
      IN  /\ ~Truthy(CacheValue(map0, c)) => log[i].requests >= 1
          /\ log[i].failed =>
               /\ c \notin DOMAIN ods_map
               /\ \A r \in 2..Len(map_file.rows) : map_file.rows[r][2] # c

\* C3 witness: an earlier run for February left A81002 UNKNOWN; the run for
\* January that has now ended asked the registry for A81002 again
C3_Witness ==
  /\ pc = "done"
  /\ month = Jan25
  /\ icb_gp_suppliers[Feb25].exists
  /\ icb_gp_suppliers[Feb25].rows[2][1] = "UNKNOWN"
  /\ icb_gp_suppliers[Feb25].rows[2][2] = "A81002"
  /\ \E i \in DOMAIN log :
       log[i].ods_code = "A81002" /\ log[i].requests >= 1 /\ log[i].failed

\* the request/wait sequences one lookup may produce
ValidCalls(cs) ==
  \/ cs = <<>>
  \/ Len(cs) = 1 /\ cs[1] # "sleep 5"
  \/ cs = <<"429", "sleep 5">>
  \/ Len(cs) = 3 /\ cs[1] = "429" /\ cs[2] = "sleep 5" /\ cs[3] # "sleep 5"

\* C4: a lookup sends at most two requests; the second follows a first answer
\* of 429 and the backoff wait, and nothing else; a first answer other than
\* 429 ends the lookup; a second answer that is a failure leaves the row
\* UNKNOWN.
C4_RetryOnceOn429 ==
  /\ ValidCalls(calls)
  /\ pc = "request" => calls = <<>>
  /\ pc = "backoff" => calls = <<"429">>
  /\ pc = "retry" => calls = <<"429", "sleep 5">>
  /\ pc \in {"delay", "record", "append_map", "append_row"} =>
       \/ Len(calls) = 1 /\ calls[1] # "429"
       \/ Len(calls) = 3
  /\ (pc = "append_row" /\ Len(calls) = 3 /\ calls[3] \in FailureEvents)
       => icb_code = "UNKNOWN"
  /\ \A i \in DOMAIN log :
       /\ log[i].requests <= 2
       /\ log[i].failed => log[i].icb_code = "UNKNOWN"

\* C4 witness: a lookup was answered 429 twice, with the wait in between, and
\* its row is about to be written as UNKNOWN
C4_Witness ==
  /\ pc = "append_row"
  /\ calls = <<"429", "sleep 5", "429">>
  /\ icb_code = "UNKNOWN"

\* the rows the run in hand has added to the cache file `file`
AppendedTo(file) ==
  IF map0.exists THEN SubSeq(file.rows, Len(map0.rows) + 1, Len(file.rows))
  ELSE IF file.exists THEN Tail(file.rows)
  ELSE <<>>

\* the (code, ods_code) rows of the finished rows whose lookup found a code
FoundPairs ==
  LET found == SelectSeq(log, LAMBDA e : e.requests >= 1 /\ e.icb_code # "UNKNOWN")
  IN  [i \in DOMAIN found |-> <<found[i].icb_code, found[i].ods_code>>]

\* the row in hand, when its pair is already in the file
InFlightPair ==
  IF pc = "append_row" /\ icb_code # "UNKNOWN"
    THEN <<<<icb_code, ods_code>>>>
    ELSE <<>>

C5_Inv ==
  RunInHand =>
    /\ map0.exists =>
         /\ map_file.exists
         /\ Len(map0.rows) <= Len(map_file.rows)
         /\ SubSeq(map_file.rows, 1, Len(map0.rows)) = map0.rows
    /\ AppendedTo(map_file) = FoundPairs \o InFlightPair
    /\ \A i \in 1..(Len(AppendedTo(map_file)) - 1) :
         StrLess(AppendedTo(map_file)[i][2], AppendedTo(map_file)[i + 1][2])

C5_Crash ==
  (pc \notin Stopped /\ pc' = "idle") =>
    /\ Len(FoundPairs) <= Len(AppendedTo(map_file'))
    /\ SubSeq(AppendedTo(map_file'), 1, Len(FoundPairs)) = FoundPairs
    /\ Len(AppendedTo(map_file')) <= Len(FoundPairs) + 1

\* C5: at every point of a run the rows the run has added to the cache file
\* are the pairs found for its finished rows, in the input's ascending
\* ods_code order, followed at most by the pair of the row in hand; a crash
\* leaves all of them in the file.
C5_ImmediateOrderedPersistence == []C5_Inv /\ [][C5_Crash]_vars

\* C5 witness: the run has found and appended a pair for a finished row, and
\* has just appended the pair of the row in hand
C5_Witness ==
  /\ pc = "append_row"
  /\ icb_code # "UNKNOWN"
  /\ Len(FoundPairs) = 1
  /\ Len(AppendedTo(map_file)) = 2

\* ------------------------------------------------ commissioner selection
\* the lookup in hand has returned to main() (line 152)
LookupReturned == pc = "delay" /\ calls # <<>>

\* C19: when the relationship list of a successful answer holds an Active
\* RE4 element with a target extension identifier, the lookup returns a
\* commissioner code (never None), wherever that element stands in the list.
C19_QualifyingElementSelected ==
  (LookupReturned /\ calls[Len(calls)] = "200 match") => Truthy(icb_code)

\* ------------------------------------------------------ rate-limit delay
\* the finished rows of the run in hand that were looked up in the registry
LookedUp == {i \in DOMAIN log : log[i].requests >= 1}

\* the step of lines 153-154 (the delay is counted by api_calls)
DelayStep == pc = "delay" /\ pc' = "record"

\* the first request of a practice is sent
FirstRequestStep == pc = "request" /\ pc' # "request"

\* a row is served from the cache
CacheHitStep == pc = "loop" /\ pc' = "loop" /\ idx' = idx + 1

C20_Inv ==
  RunInHand =>
    api_calls = Cardinality(LookedUp)
                + (IF pc \in {"record", "append_map", "append_row"} THEN 1 ELSE 0)

C20_Step ==
  /\ DelayStep => /\ calls # <<>>
                  /\ api_calls' = api_calls + 1
                  /\ Get(cache0, ods_code) = None
  /\ FirstRequestStep => api_calls = Cardinality(LookedUp)
  /\ CacheHitStep => /\ api_calls' = api_calls
                     /\ log'[Len(log')].requests = 0
  /\ api_calls' # api_calls => (DelayStep \/ pc' \in {"idle", "loop"})

\* C20: within a run, every practice looked up in the registry is followed by
\* one rate-limit delay step before the request of the next looked-up
\* practice is sent, and a practice served from the cache causes no delay
\* step.
C20_RateLimitSpacing == []C20_Inv /\ [][C20_Step]_vars

\* C20 witness: the first practice was looked up, the delay step has run, and
\* the request for the second practice is about to be sent
C20_Witness ==
  /\ pc = "request"
  /\ Len(log) = 1
  /\ log[1].requests >= 1
  /\ api_calls = 1

\* ------------------------------------------------------- the query engine
\* the records of the object the methods are called on
Records == lookup_instance.data

\* the positions of the records whose stored code is `code`
StoredAs(code) == {i \in DOMAIN Records : Records[i]["GP_ODS_CODE"] = code}

\* the smallest element of a non-empty set of positions
Least(S) == CHOOSE i \in S : \A j \in S : i <= j

\* C15: lookup_by_ods_code(c) returns what lookup_by_ods_code(upper(c))
\* returns: the first record in file order whose stored ods_code equals
\* upper(c), or nothing when there is none.
C15_LookupCaseInsensitive ==
  result.op = "lookup_by_ods_code" =>
    LET c == result.arg
    IN  /\ result.out = lookup_by_ods_code(Records, Upper(c))
        /\ result.out = IF StoredAs(Upper(c)) = {} THEN <<>>
                        ELSE <<Records[Least(StoredAs(Upper(c)))]>>

\* C15 witness: the dataset holds A81001 twice; asked for a81001, the
\* engine has returned the first of the two records
C15_Witness ==
  /\ result.op = "lookup_by_ods_code"
  /\ result.arg = "a81001"
  /\ Cardinality(StoredAs("A81001")) = 2
  /\ Records[Len(Records)]["GP_NAME"] = <<"PARK", " ", "MEDICAL">>
  /\ Len(result.out) = 1
  /\ result.out[1]["GP_NAME"] = <<"DENSHAM", " ", "SURGERY">>

\* C17: filter_by_system(s) returns, in file order, the records whose
\* canonical supplier equals s when letter case is ignored on both sides.
C17_FilterIgnoresCaseOnBothSides ==
  result.op = "filter_by_system" =>
    result.out =
      SelectSeq(Records,
                LAMBDA row : UpperText(row["GP_SYSTEM"]) = UpperText(result.arg))

RECURSIVE SumCounts(_, _)
\* the sum of the counts of the items from item k on
SumCounts(items, k) ==
  IF k > Len(items) THEN 0 ELSE items[k].count + SumCounts(items, k + 1)

\* the position of the first record of a supplier
FirstOccurrence(system) ==
  Least({i \in DOMAIN Records : Records[i]["GP_SYSTEM"] = system})

\* C18: get_statistics returns for every dataset, the empty one included;
\* total_practices is the number of records, the counts are the numbers of
\* records per supplier and sum to total_practices, and the suppliers are
\* listed by count descending, suppliers of equal count in the order of
\* their first occurrence in the dataset.
C18_Statistics ==
  result.op = "get_statistics" =>
    LET s == result.out.systems
    IN  /\ result.out.total_practices = Len(Records)
        /\ SumCounts(s, 1) = Len(Records)
        /\ Records = <<>> => s = <<>>
        /\ \A k \in DOMAIN s :
             s[k].count =
               Cardinality({i \in DOMAIN Records :
                              Records[i]["GP_SYSTEM"] = s[k].system})
        /\ \A k, l \in DOMAIN s :
             k < l =>
               \/ s[k].count > s[l].count
               \/ /\ s[k].count = s[l].count
                  /\ FirstOccurrence(s[k].system) < FirstOccurrence(s[l].system)

\* C18 witness: three records, the supplier met second has two of them and
\* is listed first
C18_Witness ==
  /\ result.op = "get_statistics"
  /\ Len(Records) = 3
  /\ Len(result.out.systems) = 2
  /\ result.out.systems[1].count = 2
  /\ result.out.systems[1].percentage = 6667
  /\ Records[1]["GP_SYSTEM"] = result.out.systems[2].system

\* ------------------------------------------------------ the key's letter case
\* the codes in column `col` of a dataset are upper case and differ from one
\* another when letter case is ignored
CanonicalKeys(file, col) ==
  \A i \in 2..Len(file.rows) :
    /\ Upper(file.rows[i][col]) = file.rows[i][col]
    /\ \A j \in 2..Len(file.rows) :
         i # j => Upper(file.rows[i][col]) # Upper(file.rows[j][col])

\* every record of an enriched dataset is found under its own code
FoundByOwnCode(file) ==
  \A i \in 2..Len(file.rows) :
    lookup_by_ods_code(DictRows(file), file.rows[i][2]) # <<>>

\* C16: in every dataset the pipeline has written, the ods_codes are upper
\* case and no two are equal ignoring case, whatever the letter case of the
\* raw rows; every record of an enriched dataset is found by
\* lookup_by_ods_code under its code.
C16_UpperCaseUniqueKey ==
  \A m \in Months :
    /\ gp_suppliers[m].exists => CanonicalKeys(gp_suppliers[m], 1)
    /\ icb_gp_suppliers[m].exists =>
         /\ CanonicalKeys(icb_gp_suppliers[m], 2)
         /\ FoundByOwnCode(icb_gp_suppliers[m])

\* ------------------------------------------------------------ fatal errors
\* the run in hand has not reached the write of its dataset
BeforeWrite == acq_pc \in {"link", "download", "unzip", "select", "process"}

C11_Inv ==
  /\ BeforeWrite => Durable = durable0
  /\ acq_pc = "failed" => error \in FatalSteps /\ Durable = durable0

C11_Step ==
  /\ acq_pc \in {"link", "download", "unzip"} =>
       UNCHANGED <<gp_suppliers, icb_gp_suppliers, map_file, input_file_paths,
                   processed>>
  /\ acq_pc = "failed" => acq_pc' \in {"failed", "link", "download"}
  /\ acq_pc' = "failed" =>
       UNCHANGED <<gp_suppliers, icb_gp_suppliers, map_file, zip_files, tmp_dir>>

\* C11: a run that fails in link resolution, download, extraction, file
\* selection or row processing ends there, and the month's dataset, the
\* enriched dataset and the commissioner cache are as the run found them;
\* the download and extraction steps write only the archive and the
\* extraction directory under .tmp.
C11_FatalErrorsLeaveDurableData == []C11_Inv /\ [][C11_Step]_vars

\* C11 witness: an earlier run has replaced January's dataset; the run in
\* hand has downloaded and extracted an archive and failed on a file it
\* cannot decode; the dataset is the one of the earlier run
C11_Witness ==
  /\ acq_pc = "failed"
  /\ error = "row processing"
  /\ norm_month = Jan25
  /\ zip_files[Jan25].exists
  /\ Midlands_Jan_25 \in DOMAIN tmp_dir[Jan25]
  /\ gp_suppliers[Jan25].exists
  /\ gp_suppliers[Jan25] # OldSuppliers
  /\ gp_suppliers = durable0.gp

\* ---------------------------------------------------------------- the server
\* the last tool call was a query
Queried == reply.tool \in QueryTools

\* the months that have an artifact
Available == {m \in Months : icb_gp_suppliers[m].exists}

\* the month whose artifact has the greatest file name
Latest ==
  CHOOSE m \in Available :
    \A n \in Available : ~TextLess(ArtifactPath(m), ArtifactPath(n))

\* the month a query for month m is to be answered from
Target(m) == IF m = NoMonth THEN Latest ELSE m

\* a query for month m has an artifact to be answered from
Answerable(m) == IF m = NoMonth THEN Available # {} ELSE m \in Available

\* the answer of the tool of reply r, worked out on the records `data`
AnswerOn(r, data) ==
  IF r.tool = "gp_lookup_by_ods_code" THEN lookup_by_ods_code(data, r.arg[1])
  ELSE [stats |-> get_statistics(data),
        months |-> list_available_months(icb_gp_suppliers)]

C12_Inv ==
  (Queried /\ ~Answerable(reply.month)) => reply.error

C12_Step ==
  /\ (reply'.tool \in QueryTools /\ reply'.error) =>
       UNCHANGED <<lookup_instance, lookup_month, gp_suppliers, icb_gp_suppliers,
                   map_file>>
  /\ (missed /\ reply'.tool \in QueryTools /\ Answerable(reply'.month)) =>
       /\ ~reply'.error
       /\ reply'.out =
            AnswerOn(reply', DictRows(icb_gp_suppliers[Target(reply'.month)]))

\* C12: a query for a month without artifact is answered by an error
\* message and changes neither the object in use nor any file; a query made
\* after such a failure for a month that has an artifact succeeds and is
\* answered from that month's artifact.
C12_MissingMonthFailsOnlyItsRequest == []C12_Inv /\ [][C12_Step]_vars

\* C12 witness: a query has failed for want of an artifact, and the last
\* query, for February, has found a practice in February's artifact
C12_Witness ==
  /\ missed
  /\ reply.tool = "gp_lookup_by_ods_code"
  /\ reply.month = Feb25
  /\ ~reply.error
  /\ Len(reply.out) = 1
  /\ ~icb_gp_suppliers[Jan25].exists

C13_Inv ==
  (reply.tool = "gp_update_data" /\ ~reply.error) =>
    /\ lookup_instance = NoInstance
    /\ lookup_month = NoMonth

C13_Step ==
  (reply.tool = "gp_update_data" /\ ~reply.error /\ reply'.tool \in QueryTools
   /\ ~reply'.error) =>
    /\ lookup_instance'.data_file = ArtifactPath(Target(reply'.month))
    /\ lookup_instance'.data = DictRows(icb_gp_suppliers[Target(reply'.month)])
    /\ reply'.out = AnswerOn(reply', lookup_instance'.data)

\* C13: after a successful update the server holds no object; the first
\* query after it builds one from the artifact as the update left it.
C13_UpdateInvalidatesSnapshot == []C13_Inv /\ [][C13_Step]_vars

\* C13 witness: the last update found an object loaded from January's
\* artifact and rewrote that artifact; the query after it has loaded
\* January's records anew, and they differ from the ones dropped
C13_Witness ==
  /\ Queried
  /\ ~reply.error
  /\ reply.month = Jan25
  /\ dropped # NoInstance
  /\ dropped.data_file = lookup_instance.data_file
  /\ dropped.data # lookup_instance.data

\* C14: whatever queries and updates came before, the last query for month
\* m was answered from the present content of m's artifact, a query without
\* month from the present content of the artifact with the greatest file
\* name, and by an error message when there is no such artifact; the object
\* the server holds is never one of another month or of an earlier content.
C14_NoStaleOrWrongMonthAnswers ==
  /\ Queried =>
       IF Answerable(reply.month)
         THEN /\ ~reply.error
              /\ reply.out =
                   AnswerOn(reply, DictRows(icb_gp_suppliers[Target(reply.month)]))
              /\ lookup_month = reply.month
         ELSE reply.error
  /\ lookup_instance # NoInstance =>
       /\ lookup_instance.data_file = ArtifactPath(Target(lookup_month))
       /\ lookup_instance.data = DictRows(icb_gp_suppliers[Target(lookup_month)])

\* C14 witness: an object loaded from January's artifact was dropped by an
\* update for February, a query has failed meanwhile, and the last query,
\* without month, has been answered from February's artifact
C14_Witness ==
  /\ Queried
  /\ reply.month = NoMonth
  /\ ~reply.error
  /\ missed
  /\ dropped.data_file = ArtifactPath(Jan25)
  /\ lookup_instance.data_file = ArtifactPath(Feb25)
  /\ lookup_instance.data = DictRows(icb_gp_suppliers[Feb25])

\* ------------------------------------------------ the cache file (C21, C28, C29)
\* s is a prefix of t
IsPrefix(s, t) == Len(s) <= Len(t) /\ SubSeq(t, 1, Len(s)) = s

\* the rows of the file that are the header row
HeaderRows(file) == {i \in DOMAIN file.rows : file.rows[i] = MapHeader}

C21_Inv == map_file.exists => HeaderRows(map_file) = {1}

C21_Step ==
  /\ map_file.exists => map_file'.exists /\ IsPrefix(map_file.rows, map_file'.rows)
  /\ HeaderRows(map_file') # HeaderRows(map_file) => ~map_file.exists

\* C21: under sequential runs every content of the cache file is a prefix of
\* every later content (no row is rewritten or removed), and the header row is
\* written once, by the step that creates the file, and is its first row.
C21_CacheAppendOnly == []C21_Inv /\ [][C21_Step]_vars

\* C21 witness: a second run has appended a row to the file the first run
\* created
C21_Witness ==
  /\ runs = 2
  /\ map0.exists
  /\ Len(map_file.rows) > Len(map0.rows)
  /\ Len(map0.rows) >= 2

\* ------------------------------------------------------ read-only queries (C22)
\* the artifacts under execution/data
Artifacts == <<gp_suppliers, icb_gp_suppliers, map_file>>

C22_Inv ==
  lookup_instance.data = load_data(icb_gp_suppliers[lookup_instance.data_file]).val

C22_Step ==
  /\ UNCHANGED Artifacts
  /\ lookup_instance'.data = lookup_instance.data
  /\ (result.op = result'.op /\ result.arg = result'.arg) => result'.out = result.out

\* C22: lookup, search, filter and statistics, in any order and any number of
\* times, leave the datasets, the commissioner cache and the records of the
\* loaded snapshot as they are: the records stay those of the artifact the
\* snapshot was loaded from, and a query asked again returns the same result.
C22_QueriesReadOnly == []C22_Inv /\ [][C22_Step]_vars

\* C22 witness: a search has returned a record whose stored name is not in
\* upper case, after upper-casing it for the comparison
C22_Witness ==
  /\ result.op = "search_by_name"
  /\ \E i \in DOMAIN result.out :
       /\ result.out[i]["GP_NAME"] # UpperText(result.out[i]["GP_NAME"])
       /\ result.out[i] \in Range(lookup_instance.data)

\* ------------------------------------------- transient files (C23, C25, C27)
\* the month's archive or its extraction directory is there before the step
\* and gone after it
TransientRemoved(m) ==
  \/ zip_files[m].exists /\ ~zip_files'[m].exists
  \/ tmp_dir[m] # <<>> /\ tmp_dir'[m] = <<>>

C23_Step ==
  \A m \in Months :
    TransientRemoved(m) =>
      /\ m = norm_month
      /\ acq_pc = "cleanup"
      /\ gp_suppliers[m] = write_output_file(processed.data, processed.gp_code_to_name)
      /\ gp_suppliers' = gp_suppliers

C23_Inv ==
  acq_pc = "done" =>
    /\ ~zip_files[norm_month].exists
    /\ tmp_dir[norm_month] = <<>>
    /\ gp_suppliers[norm_month].exists

\* C23: the month's downloaded archive and extraction directory are removed
\* only by a step that finds the month's normalized dataset written by the
\* run in hand, and when a run has ended without error neither of them exists.
C23_TransientFilesLifecycle == []C23_Inv /\ [][C23_Step]_vars

\* C23 witness: a run has ended without error after downloading and
\* extracting an archive; the dataset it wrote is not the one it found
C23_Witness ==
  /\ acq_pc = "done"
  /\ gp_suppliers[norm_month] # durable0.gp[norm_month]
  /\ gp_suppliers[norm_month] =
       write_output_file(processed.data, processed.gp_code_to_name)
  /\ Len(input_file_paths) > 0

\* the run in hand has selected its input files and has not removed them
Selected == acq_pc \in {"process", "write", "cleanup"}

\* C25: the normalizer's input is exactly the set of files, at any depth of
\* the extraction directory, whose name ends with the month's abbreviated
\* suffix; a matching file inside a sub-directory is selected.
C25_SelectionCoversTree ==
  Selected =>
    Range(input_file_paths) =
      {f \in DOMAIN tmp_dir[norm_month] : EndsWith(f, SearchString(norm_month))}

\* C27: the files a run normalizes all come from the archive the run
\* downloaded, and every record of the dataset it writes comes from a row of
\* a file of that archive.
C27_NoStaleExtracts ==
  LET archive == zip_files[norm_month].files
  IN  /\ Selected => \A k \in DOMAIN input_file_paths : input_file_paths[k] \in DOMAIN archive
      /\ acq_pc = "cleanup" =>
           \A i \in 2..Len(gp_suppliers[norm_month].rows) :
             \E f \in DOMAIN archive : \E r \in DOMAIN archive[f] :
               /\ Len(archive[f][r]) >= 4
               /\ archive[f][r][2] = gp_suppliers[norm_month].rows[i][1]

\* ---------------------------------------------------------- row acceptance (C24)
\* the two-row extract of the end-to-end scenario, and its dataset
ExampleExtract ==
  <<RawHeader,
    RawRow("A81001", "DENSHAM SURGERY", <<"TPP">>),
    RawRow("A81002", "PARK MEDICAL", <<"EVERGREENLIFE", "/", "EMIS">>)>>

ExampleDataset ==
  File(<<SuppliersHeader,
         <<"A81001", "DENSHAM SURGERY", <<"TPP">>, <<"TPP">>>>,
         <<"A81002", "PARK MEDICAL", <<"EVERGREENLIFE", "/", "EMIS">>, <<"EMIS">>>>>>)

\* the rows of all the files the last run read
RowsRead ==
  UNION {Range(tmp_dir[norm_month][input_file_paths[k]]) : k \in DOMAIN input_file_paths}

\* C24: the first row of every input file is skipped, every later row with
\* fewer than four columns is skipped without error, and every other row is
\* considered: the codes of the dataset are the second columns of those rows
\* and each record's name and raw supplier field are the third and fourth
\* column of such a row.  The two-row example extract gives the example
\* dataset.
C24_RowAcceptance ==
  NormalizerWrote =>
    LET out == gp_suppliers[norm_month].rows
    IN  /\ {out[i][1] : i \in 2..Len(out)} = {r[2] : r \in Range(LastAccepted)}
        /\ \A i \in 2..Len(out) :
             \E r \in Range(LastAccepted) :
               /\ Len(r) >= 4
               /\ r # RawHeader
               /\ out[i] = <<r[2], r[3], r[4], out[i][4]>>
        /\ (RowsRead = Range(ExampleExtract) /\ ShortRow \notin RowsRead
              /\ \E k \in DOMAIN input_file_paths :
                   tmp_dir[norm_month][input_file_paths[k]] = ExampleExtract)
             => gp_suppliers[norm_month] = ExampleDataset

\* C24 witness: the run read the example extract and, as its second file, a
\* file of a header, a short row and a full row
C24_Witness ==
  /\ NormalizerWrote
  /\ Len(input_file_paths) = 2
  /\ tmp_dir[norm_month][input_file_paths[1]] = ExampleExtract
  /\ tmp_dir[norm_month][input_file_paths[2]] =
       <<RawHeader, ShortRow, RawRow("A81002", "DENSHAM SURGERY", <<"TPP">>)>>
  /\ gp_suppliers[norm_month] = ExampleDataset

\* the data rows of the cache file: its rows other than the header row
DataRows(file) == {i \in DOMAIN file.rows : file.rows[i] # MapHeader}

\* the rows of the file as (ods_code, commissioner) pairs
PairsOfFile(file) == {<<file.rows[i][2], file.rows[i][1]>> : i \in DataRows(file)}

\* the in-memory map as (ods_code, commissioner) pairs
PairsOfMap(mapping) == {<<c, mapping[c]>> : c \in DOMAIN mapping}

\* C28: after any sequence of sequential runs that starts from an absent or
\* empty cache file, the file holds at most one data row per ods_code, and
\* the map a run loads at its start is the set of the data rows of the file.
C28_OneRowPerCode ==
  /\ \A i, j \in DataRows(map_file) :
       map_file.rows[i][2] = map_file.rows[j][2] => i = j
  /\ RunInHand => PairsOfMap(cache0) = PairsOfFile(map0)

\* C29: when a run completes, every record of the enriched dataset it wrote
\* carries the commissioner the cache holds for the record's ods_code at that
\* moment, in the file and in memory, and carries UNKNOWN exactly when the
\* cache holds no entry for the ods_code.
C29_OutputAgreesWithCache ==
  pc = "done" =>
    LET out == icb_gp_suppliers[month].rows
    IN  \A i \in 2..Len(out) :
          LET held == CacheValue(map_file, out[i][2])
          IN  /\ held # None => out[i][1] = held
              /\ out[i][1] = "UNKNOWN" <=> held = None
              /\ Get(ods_map, out[i][2]) = held

\* C29 witness: the second run has completed; one of its records has the
\* commissioner the first run left in the cache, the other is UNKNOWN
C29_Witness ==
  /\ pc = "done"
  /\ runs = 2
  /\ Len(icb_gp_suppliers[month].rows) = 3
  /\ \E i \in DOMAIN log : log[i].requests = 0 /\ log[i].icb_code # "UNKNOWN"
  /\ \E i \in 2..3 : icb_gp_suppliers[month].rows[i][1] = "UNKNOWN"

\* ------------------------------------------------------ concurrent runs (C26)
\* the file breaks what sequential runs keep: an ods_code in two data rows,
\* or the header row twice
SameCodeTwice(file) ==
  \E i, j \in DataRows(file) : i # j /\ file.rows[i][2] = file.rows[j][2]

HeaderTwice(file) == Cardinality(HeaderRows(file)) >= 2

\* C26: two enrichment runs on one cache file keep the file's sequential
\* invariants as long as one runs after the other; when their steps
\* interleave, a state is reachable in which an ods_code is in two rows or
\* the header row is there twice.
C26_ConcurrentRunsHazard ==
  (SameCodeTwice(map_file) \/ HeaderTwice(map_file)) => overlapped

\* C26 witness: two runs for different months have interleaved and both have
\* ended; the file holds the header twice and A81002 in two rows
C26_Witness ==
  /\ procs[1].pc = "done" /\ procs[2].pc = "done"
  /\ procs[1].month # procs[2].month
  /\ HeaderTwice(map_file)
  /\ \E i, j \in DataRows(map_file) :
       i # j /\ map_file.rows[i][2] = "A81002" /\ map_file.rows[j][2] = "A81002"

====
